---- MODULE Spec2Model ----
(***************************************************************************)
(* Model of the audio analysis and scoring engine of chunks-ec            *)
(* (src/src/lib/audioAnalysis.ts) and of the code around it that reads    *)
(* and writes its configuration.                                          *)
(*                                                                         *)
(* Number representation.  The engine computes in IEEE doubles; the model *)
(* computes the same quantities exactly, as integers in fixed units:      *)
(*   sample amplitude   thousandths of full scale (500 is 0.5)            *)
(*   decibels           1/2000 dB, rounded down                           *)
(*   averageDb          tenths of a dB, as Math.round(db * 10) gives      *)
(*   times              milliseconds                                      *)
(*   ratios             fractions num/den, reported in hundredths         *)
(*   pause thresholds   hundredths (271 is 2.71)                          *)
(* A quotient is never formed before the final Math.round: a score is the *)
(* pair (num, den) handed to ClampedScore.  A JavaScript NaN is the value *)
(* NaN below; division by zero gives the infinities JavaScript gives.     *)
(***************************************************************************)
EXTENDS Integers, Sequences, FiniteSets, TLC

VARIABLES
  audioBuffer,          \* analyzeAudioAsync argument: the PCM samples
  sampleRate,           \* analyzeAudioAsync argument
  readings,             \* analyzeVolume scoring: two dB readings and their thresholds
  deviceId,             \* analyzeAudioAsync argument ("none" when not supplied)
  vadMetrics,           \* analyzeAudioAsync argument (NoVAD when not supplied)
  metricConfig,         \* localStorage item 'metricConfig'
  audioMetricSettings,  \* localStorage item 'audio_metric_settings'
  result,               \* outcome of the last analyzeAudioAsync call
  scores,               \* calculateOverallScore argument: the five scores
  overall,              \* calculateOverallScore return value
  pc,                   \* position of the running analyzeAudioAsync call
  partial,              \* the analyzer results the running call holds so far
  storeVersion,         \* number of writes to 'metricConfig' so far
  observed,             \* history: the store versions the last call read
  snapshot,             \* history: the store as it was when the last call began
  memo,                 \* history: an earlier call, kept for comparison
  scanEnergies,         \* pulse detection: the frame energies of a scan
  scanSpeech,           \* pulse detection: the frames inside a speech segment
  pulses,               \* pulse detection: the frames the last scan counted
  metrics,              \* MetricsTab state `metrics`
  appState,             \* Index page state `appState`
  results,              \* Index page state `results`
  recorder,             \* what useAudioRecorder returns to the Index page
  calls,                \* analyzeAudioAsync calls processAudio still awaits
  timeouts              \* 500 ms timeouts set by processAudio and not yet run

\* the variables of the pulse scan and those of the Index page
scanVars == << scanEnergies, scanSpeech, pulses >>

pageVars == << appState, results, recorder, calls, timeouts >>

\* the variables of the analysis engine, its inputs and its store
engineVars == << audioBuffer, sampleRate, readings, deviceId, vadMetrics, metricConfig,
                 audioMetricSettings, result, scores, overall, pc, partial,
                 storeVersion, observed, snapshot, memo >>

vars == << engineVars, scanVars, metrics, pageVars >>

----------------------------------------------------------------------------
(* Bounds of the model *)

\* longest sequence of arbitrary samples in a buffer
MaxLen == 5

\* most writes to 'metricConfig' in one behaviour
MaxSaves == 2

----------------------------------------------------------------------------
(* JavaScript numbers *)

NaN == -999999

Abs(x) == IF x < 0 THEN -x ELSE x

Max2(a, b) == IF a >= b THEN a ELSE b

Min2(a, b) == IF a <= b THEN a ELSE b

\* Math.floor(num / den), den > 0
MathFloor(num, den) == num \div den

\* Math.round(num / den): the nearest integer, halves towards +Infinity
MathRound(num, den) ==
  IF den > 0 THEN (2 * num + den) \div (2 * den)
             ELSE (2 * (-num) + (-den)) \div (2 * (-den))

\* Math.min(100, Math.max(0, Math.round(num / den))), the clamp every analyzer
\* applies.  den = 0 is JavaScript's division by zero: 0/0 is NaN, and
\* Math.min and Math.max return NaN for a NaN argument; x/0 is +-Infinity.
ClampedScore(num, den) ==
  IF num = NaN \/ den = NaN THEN NaN
  ELSE IF den = 0
    THEN (IF num = 0 THEN NaN ELSE IF num > 0 THEN 100 ELSE 0)
    ELSE Min2(100, Max2(0, MathRound(num, den)))

RECURSIVE SumSquares(_)
SumSquares(buf) ==
  IF buf = << >> THEN 0 ELSE Head(buf) * Head(buf) + SumSquares(Tail(buf))

RECURSIVE SumAbs(_)
SumAbs(buf) ==
  IF buf = << >> THEN 0 ELSE Abs(Head(buf)) + SumAbs(Tail(buf))

\* ceil(10^(j/200) * 10^5) for j = 0..200: Math.log10 tabulated every 1/200
\* of a decade
Log10Mantissa ==
  <<
       100000, 101158, 102330, 103515, 104713, 105926, 107152, 108393,
       109648, 110918, 112202, 113502, 114816, 116145, 117490, 118851,
       120227, 121619, 123027, 124452, 125893, 127351, 128825, 130317,
       131826, 133353, 134897, 136459, 138039, 139637, 141254, 142890,
       144544, 146218, 147911, 149624, 151357, 153109, 154882, 156676,
       158490, 160325, 162182, 164059, 165959, 167881, 169825, 171791,
       173781, 175793, 177828, 179888, 181971, 184078, 186209, 188365,
       190547, 192753, 194985, 197243, 199527, 201837, 204174, 206539,
       208930, 211349, 213797, 216272, 218777, 221310, 223873, 226465,
       229087, 231740, 234423, 237138, 239884, 242662, 245471, 248314,
       251189, 254098, 257040, 260016, 263027, 266073, 269154, 272271,
       275423, 278613, 281839, 285102, 288404, 291743, 295121, 298539,
       301996, 305493, 309030, 312608, 316228, 319890, 323594, 327341,
       331132, 334966, 338845, 342768, 346737, 350752, 354814, 358922,
       363079, 367283, 371536, 375838, 380190, 384592, 389046, 393551,
       398108, 402718, 407381, 412098, 416870, 421697, 426580, 431520,
       436516, 441571, 446684, 451856, 457089, 462382, 467736, 473152,
       478631, 484173, 489779, 495451, 501188, 506991, 512862, 518801,
       524808, 530885, 537032, 543251, 549541, 555905, 562342, 568853,
       575440, 582104, 588844, 595663, 602560, 609537, 616596, 623735,
       630958, 638264, 645655, 653131, 660694, 668344, 676083, 683912,
       691831, 699842, 707946, 716144, 724436, 732825, 741311, 749895,
       758578, 767362, 776248, 785236, 794329, 803527, 812831, 822243,
       831764, 841396, 851139, 860994, 870964, 881049, 891251, 901572,
       912011, 922572, 933255, 944061, 954993, 966051, 977238, 988554,
       1000000 >>

RECURSIVE Pow10(_)
Pow10(e) == IF e = 0 THEN 1 ELSE 10 * Pow10(e - 1)

\* the decade d of s/n: 10^d <= s/n < 10^(d+1), for 1/100 <= s/n < 10^7
Decade(s, n) ==
  CHOOSE d \in -2..6 :
    /\ (IF d >= 0 THEN Pow10(d) * n <= s ELSE n <= s * Pow10(-d))
    /\ (IF d + 1 >= 0 THEN s < Pow10(d + 1) * n ELSE s * Pow10(-d - 1) < n)

\* the six-digit mantissa of s/n in decade e: floor(s / n / 10^e * 10^5)
Mantissa(s, n, e) ==
  IF e >= 5 THEN s \div (n * Pow10(e - 5)) ELSE (s * Pow10(5 - e)) \div n

\* the table entry at or below the mantissa
TableIndex(mant) ==
  CHOOSE k \in 1..200 : Log10Mantissa[k] <= mant /\ Log10Mantissa[k + 1] > mant

\* the interpolation between table entries j and j + 1 for mantissa mant in
\* decade e
Interpolated(e, mant, j) ==
  20000 * e + 100 * (j - 1)
    + (100 * (mant - Log10Mantissa[j])) \div (Log10Mantissa[j + 1] - Log10Mantissa[j])

LogOfMantissa(e, mant) == Interpolated(e, mant, TableIndex(mant))

LogInDecade(e, s, n) == LogOfMantissa(e, Mantissa(s, n, e))

\* floor(20000 * log10(s / n)) for integers s > 0, n > 0 with 1/100 <= s/n < 10^7:
\* the decade, the table entry below the six-digit mantissa, and a linear
\* interpolation between that entry and the next
Log10x20000(s, n) == LogInDecade(Decade(s, n), s, n)

\* DbOfSum with the floor of the rms at 1e-5 instead of 1e-10: -100 dB
DbOfSum_EpsilonTooLarge(sum, length) ==
  IF length = 0 THEN NaN
  ELSE IF sum = 0 THEN -200000
  ELSE Log10x20000(sum, length) - 120000

\* 20 * Math.log10(Math.max(rms, 1e-10)) for the sum of squares and the
\* length of the buffer
DbOfSum(sum, length) ==
  IF length = 0 THEN NaN               \* sum / 0 is 0/0
  ELSE IF sum = 0 THEN -400000         \* Math.max(0, 1e-10): -200 dB
  ELSE Log10x20000(sum, length) - 120000

\* 20 * Math.log10(Math.max(rms, 1e-10)) in 1/2000 dB, where
\* rms = Math.sqrt(sum / length) and the samples are thousandths:
\* 20*log10(rms) = 10*log10(sumSquares / (length * 10^6)).
Db2000(buf) == DbOfSum(SumSquares(buf), Len(buf))

----------------------------------------------------------------------------
(* Configuration: localStorage item 'metricConfig' *)

MetricIds == {"volume", "speechRate", "acceleration", "responseTime", "pauseManagement"}

Thresholds(min, ideal, max) == [min |-> min, ideal |-> ideal, max |-> max]

MetricEntry(id, weight, th, method) ==
  [id |-> id, weight |-> weight, thresholds |-> th, method |-> method]

\* the value of a property the parsed JSON object lacks
Undefined == [undefined |-> TRUE]

\* The item as localStorage holds it: absent (getItem returns null), a text
\* JSON.parse rejects, the JSON text of a list of MetricConfig entries, or the
\* JSON text of a value that is no list (an object, a number, null).
AbsentItem == [kind |-> "absent", entries |-> << >>]

UnparsableItem == [kind |-> "unparsable", entries |-> << >>]

ListItem(entries) == [kind |-> "list", entries |-> entries]

NotAListItem == [kind |-> "value", entries |-> << >>]

\* The list getConfig returns when nothing is saved (pause thresholds in
\* hundredths: 271 is 2.71)
DefaultConfig ==
  << MetricEntry("volume", 40, Thresholds(-35, -15, 0), "none"),
     MetricEntry("speechRate", 40, Thresholds(90, 150, 220), "energy-peaks"),
     MetricEntry("acceleration", 5, Thresholds(0, 50, 100), "none"),
     MetricEntry("responseTime", 5, Thresholds(2000, 200, 0), "none"),
     MetricEntry("pauseManagement", 10, Thresholds(0, 0, 271), "none") >>

\* getConfig reading a copy of the item cached by the previous call instead
\* of the item itself
getConfig_CachedByLastCall(item) ==
  LET cached == IF snapshot.set THEN snapshot.config ELSE item
  IN IF cached.kind \in {"list", "value"} THEN cached.entries ELSE DefaultConfig

\* JSON.parse(saved) when the item is stored and parses, whatever the value
\* is; the default list when it is absent or JSON.parse throws (the catch)
getConfig(item) ==
  IF item.kind \in {"list", "value"} THEN item.entries ELSE DefaultConfig

\* getConfig().find(...) on a value that is no list: find is not a function,
\* a TypeError no analyzer catches
FindThrows(item) == item.kind = "value"

\* getConfig().find((m) => m.id === id) !== undefined
HasMetricConfig(item, id) ==
  \E k \in 1..Len(getConfig(item)) : getConfig(item)[k].id = id

\* getConfig().find((m) => m.id === id): the first entry with that id
FirstWithId(config, id) ==
  config[CHOOSE k \in 1..Len(config) :
           /\ config[k].id = id
           /\ \A j \in 1..(k - 1) : config[j].id # id]

getMetricConfig(item, id) == FirstWithId(getConfig(item), id)

\* (getMetricConfig(id) || { thresholds: fallback }).thresholds
ResolveThresholds(item, id, fallback) ==
  IF HasMetricConfig(item, id) THEN getMetricConfig(item, id).thresholds
                               ELSE fallback

\* const { min, ideal, max } = config.thresholds, or config.thresholds.max:
\* a TypeError when find throws or when the entry found has no thresholds
ThresholdsThrow(item, id) ==
  \/ FindThrows(item)
  \/ /\ HasMetricConfig(item, id)
     /\ getMetricConfig(item, id).thresholds = Undefined

\* config?.method || "energy-peaks" of the speechRate entry; "none" stands
\* for an entry without a method
getSpeechRateMethod(item) ==
  IF HasMetricConfig(item, "speechRate") /\ getMetricConfig(item, "speechRate").method # "none"
    THEN getMetricConfig(item, "speechRate").method
    ELSE "energy-peaks"

----------------------------------------------------------------------------
(* Volume Analyzer *)

\* averageDb in tenths of a dB: Math.round(db * 10)
AverageDb10(db2000) == IF db2000 = NaN THEN NaN ELSE (db2000 + 100) \div 200

\* the score of db (in 1/2000 dB) under the thresholds t (in dB)
VolumeScore(db, t) ==
  IF db = NaN THEN NaN       \* every comparison with NaN is false
  ELSE IF db >= 2000 * t.ideal
    THEN ClampedScore(100 * 2000 * (t.max - t.ideal) - 30 * (db - 2000 * t.ideal),
                      2000 * (t.max - t.ideal))
  ELSE IF db >= 2000 * t.min
    THEN ClampedScore(70 * 2000 * (t.ideal - t.min) + 30 * (db - 2000 * t.min),
                      2000 * (t.ideal - t.min))
  ELSE ClampedScore(70 * (40000 - (2000 * t.min - db)), 40000)

VolumeResult(db, t) ==
  [averageDb |-> AverageDb10(db), score |-> VolumeScore(db, t), tag |-> "ENERGY"]

analyzeVolume(item, buf) ==
  VolumeResult(Db2000(buf), ResolveThresholds(item, "volume", Thresholds(-35, -15, 0)))

----------------------------------------------------------------------------
(* Unit-Rate Analyzer: pulse detection *)

\* VAD metrics; speechRatio is the fraction num/den
NoVAD ==
  [present |-> FALSE, speechSegments |-> << >>, totalSpeechTime |-> 0,
   totalSilenceTime |-> 0, speechRatio |-> [num |-> 0, den |-> 1]]

Segment(start, end) == [start |-> start, end |-> end, duration |-> end - start]

\* Math.floor(sampleRate * 0.02): 20 ms
FrameSize(sr) == MathFloor(sr * 2, 100)

\* Math.floor(frameSize / 2)
HopSize(sr) == MathFloor(FrameSize(sr), 2)

\* for (i = 0; i < limit; i += step) never ends when the body is entered and
\* the step does not advance: the call does not return
LoopHangs(limit, step) == limit > 0 /\ step <= 0

\* the number of times the body of for (i = 0; i < limit; i += step) runs
LoopCount(limit, step) ==
  IF limit <= 0 THEN 0 ELSE ((limit - 1) \div step) + 1

\* energies[k]: the sum of squares of frame k (1-based; the frame starts at
\* sample (k-1) * hopSize).  The code divides every sum by the same positive
\* frameSize, which changes none of the comparisons made on the energies.
FrameEnergies(buf, sr) ==
  [k \in 1..LoopCount(Len(buf) - FrameSize(sr), HopSize(sr)) |->
     SumSquares(SubSeq(buf, (k - 1) * HopSize(sr) + 1,
                            (k - 1) * HopSize(sr) + FrameSize(sr)))]

\* Math.max over the energies with index in idx (a non-empty set)
MaxOf(energies, idx) ==
  CHOOSE m \in {energies[k] : k \in idx} : \A k \in idx : energies[k] <= m

\* IsPeak without the condition i - lastPeakIdx > 3
IsPeak_NoRefractory(energies, maxEnergy, k, lastPeakIdx) ==
  /\ 100 * energies[k] > 15 * maxEnergy
  /\ energies[k] > energies[k - 1]
  /\ energies[k] > energies[k + 1]

\* one frame of the scan: above threshold = maxEnergy * 0.15, a strict local
\* maximum, and more than 3 frames after the last peak
IsPeak(energies, maxEnergy, k, lastPeakIdx) ==
  /\ 100 * energies[k] > 15 * maxEnergy
  /\ energies[k] > energies[k - 1]
  /\ energies[k] > energies[k + 1]
  /\ k - lastPeakIdx > 3

RECURSIVE PeakScan(_, _, _, _, _)
\* for (i = 1; i < energies.length - 1; i++), frames outside `within` skipped;
\* k is the 1-based index of the frame (k = i + 1), lastPeakIdx likewise
\* the result is the sequence of the frames at which the code does peaks++
PeakScan(energies, within, maxEnergy, k, lastPeakIdx) ==
  IF k > Len(energies) - 1 THEN << >>
  ELSE IF k \in within /\ IsPeak(energies, maxEnergy, k, lastPeakIdx)
    THEN << k >> \o PeakScan(energies, within, maxEnergy, k + 1, k)
    ELSE PeakScan(energies, within, maxEnergy, k + 1, lastPeakIdx)

\* the peaks among the frames with index in `within` (a non-empty set)
CountPeaksWithin(energies, within) ==
  Len(PeakScan(energies, within, MaxOf(energies, within), 2, -9))

\* with no frame the threshold is -Infinity and the scan is empty
CountPeaks(energies) ==
  IF Len(energies) = 0 THEN 0 ELSE CountPeaksWithin(energies, 1..Len(energies))

detectSyllablesFromPeaks(buf, sr) == CountPeaks(FrameEnergies(buf, sr))

\* isWithinSpeech((i / sampleRate) * 1000) for the frame starting at sample i
IsWithinSpeech(vad, i, sr) ==
  \E s \in 1..Len(vad.speechSegments) :
     /\ i * 1000 >= vad.speechSegments[s].start * sr
     /\ i * 1000 <= vad.speechSegments[s].end * sr

\* the frames of speechEnergies
SpeechFrames(energies, vad, sr) ==
  {k \in 1..Len(energies) : IsWithinSpeech(vad, (k - 1) * HopSize(sr), sr)}

\* with no frame inside a speech segment the code falls back to
\* detectSyllablesFromPeaks, which scans the same energies
CountSpeechPeaks(energies, speech) ==
  IF speech = {} THEN CountPeaks(energies) ELSE CountPeaksWithin(energies, speech)

CountPeaksWithVAD(energies, vad, sr) ==
  CountSpeechPeaks(energies, SpeechFrames(energies, vad, sr))

detectSyllablesWithVAD(buf, sr, vad) ==
  IF Len(vad.speechSegments) = 0 THEN detectSyllablesFromPeaks(buf, sr)
  ELSE CountPeaksWithVAD(FrameEnergies(buf, sr), vad, sr)

----------------------------------------------------------------------------
(* Unit-Rate Analyzer: scoring *)

UseVAD(vad) == vad.present /\ Len(vad.speechSegments) > 0

\* Math.round((syllables / 1.5 / durationSeconds) * 60), 0 unless
\* durationSeconds > 0
WordsPerMinute(syllables, buf, sr, vad) ==
  IF UseVAD(vad)
    THEN (IF vad.totalSpeechTime > 0
            THEN MathRound(40000 * syllables, vad.totalSpeechTime) ELSE 0)
    ELSE (IF sr > 0 /\ Len(buf) > 0
            THEN MathRound(40 * syllables * sr, Len(buf)) ELSE 0)

\* SpeechRateScore with 70 * (wpm / min) on both sides of min
SpeechRateScore_NoRampToIdeal(wpm, t) ==
  IF wpm <= t.ideal THEN ClampedScore(70 * wpm, Max2(1, t.min))
  ELSE ClampedScore(70 * (50 - (wpm - t.max)), 50)

SpeechRateScore(wpm, t) ==
  IF wpm >= t.min /\ wpm <= t.max
    THEN (IF wpm <= t.ideal
            THEN ClampedScore(70 * (t.ideal - t.min) + 30 * (wpm - t.min), t.ideal - t.min)
            ELSE ClampedScore(100 * (t.max - t.ideal) - 30 * (wpm - t.ideal), t.max - t.ideal))
  ELSE IF wpm < t.min THEN ClampedScore(70 * wpm, t.min)
  ELSE ClampedScore(70 * (50 - (wpm - t.max)), 50)

\* the syllables analyzeSpeechRate counts
Syllables(buf, sr, vad) ==
  IF UseVAD(vad) THEN detectSyllablesWithVAD(buf, sr, vad)
                 ELSE detectSyllablesFromPeaks(buf, sr)

\* SpeechRateResult reporting the method stored in the speechRate entry of
\* 'metricConfig', as getSpeechRateMethod reads it
SpeechRateResult_ConfiguredMethod(wpm, t, vad) ==
  [wordsPerMinute |-> wpm, score |-> SpeechRateScore(wpm, t), tag |-> "FLUENCY",
   method |-> getSpeechRateMethod(metricConfig)]

SpeechRateResult(wpm, t, vad) ==
  [wordsPerMinute |-> wpm, score |-> SpeechRateScore(wpm, t), tag |-> "FLUENCY",
   method |-> IF UseVAD(vad) THEN "vad-enhanced" ELSE "energy-peaks"]

analyzeSpeechRate(item, buf, sr, vad) ==
  SpeechRateResult(WordsPerMinute(Syllables(buf, sr, vad), buf, sr, vad),
                   ResolveThresholds(item, "speechRate", Thresholds(90, 150, 220)),
                   vad)

\* the frame loop of detectSyllablesFromPeaks / detectSyllablesWithVAD does
\* not end
SpeechRateHangs(buf, sr) == LoopHangs(Len(buf) - FrameSize(sr), HopSize(sr))

----------------------------------------------------------------------------
(* Dynamics Analyzer *)

\* Math.floor(audioBuffer.length / 2)
Midpoint(buf) == MathFloor(Len(buf), 2)

\* ((audioBuffer.length / sampleRate) * 1000) / 2, for sampleRate > 0.  The
\* sample rates of the model divide 500, so the quotient is exact.
MidpointMs(buf, sr) == (Len(buf) * 500) \div sr

RECURSIVE SumDurations(_)
SumDurations(segs) ==
  IF segs = << >> THEN 0 ELSE Head(segs).duration + SumDurations(Tail(segs))

\* speechSegments.filter(s => s.end <= midpointMs); with sampleRate = 0 the
\* midpoint is NaN or Infinity-free only for an empty buffer (0/0), and every
\* comparison with NaN is false
FirstHalfSegments(vad, buf, sr) ==
  IF sr <= 0 THEN << >>
  ELSE SelectSeq(vad.speechSegments, LAMBDA s : s.end * sr <= Len(buf) * 500)

\* s => ({...s, start: s.start - midpointMs, end: s.end - midpointMs})
ShiftSegments(kept, midpointMs) ==
  [k \in 1..Len(kept) |->
     [start |-> kept[k].start - midpointMs,
      end |-> kept[k].end - midpointMs,
      duration |-> kept[k].duration]]

\* speechSegments.filter(s => s.start >= midpointMs).map(...)
SecondHalfSegments(vad, buf, sr) ==
  IF sr <= 0 THEN << >>
  ELSE ShiftSegments(SelectSeq(vad.speechSegments,
                               LAMBDA s : s.start * sr >= Len(buf) * 500),
                     MidpointMs(buf, sr))

\* the VADMetrics handed to one half: undefined unless the half has segments
HalfVAD(vad, segs, buf, sr) ==
  IF ~vad.present \/ Len(segs) = 0 THEN NoVAD
  ELSE [present |-> TRUE, speechSegments |-> segs,
        totalSpeechTime |-> SumDurations(segs),
        totalSilenceTime |-> MidpointMs(buf, sr) - SumDurations(segs),
        speechRatio |-> [num |-> SumDurations(segs), den |-> MidpointMs(buf, sr)]]

\* Math.min(100, Math.max(0, Math.round(50 + Math.max(0, volumeIncrease * 2 +
\* rateIncrease * 0.5)))), volumeIncrease in tenths of a dB
AccelerationScore(volumeIncrease10, rateIncrease) ==
  IF volumeIncrease10 = NaN THEN NaN
  ELSE ClampedScore(50 * 20 + Max2(0, 4 * volumeIncrease10 + 10 * rateIncrease), 20)

\* vol2.averageDb - vol1.averageDb in tenths of a dB
VolumeIncrease(vol1, vol2) ==
  IF vol1.averageDb = NaN \/ vol2.averageDb = NaN THEN NaN
  ELSE vol2.averageDb - vol1.averageDb

RateIncrease(rate1, rate2) == rate2.wordsPerMinute - rate1.wordsPerMinute

AccelerationResult(vol1, vol2, rate1, rate2) ==
  [isAccelerating |-> \/ (VolumeIncrease(vol1, vol2) # NaN /\ VolumeIncrease(vol1, vol2) > 0)
                      \/ RateIncrease(rate1, rate2) > 5,
   segment1Volume |-> vol1.averageDb,
   segment2Volume |-> vol2.averageDb,
   segment1Rate |-> rate1.wordsPerMinute,
   segment2Rate |-> rate2.wordsPerMinute,
   score |-> AccelerationScore(VolumeIncrease(vol1, vol2), RateIncrease(rate1, rate2)),
   tag |-> "DYNAMICS"]

\* audioBuffer.slice(0, midpoint) and audioBuffer.slice(midpoint)
Segment1(buf) == SubSeq(buf, 1, Midpoint(buf))

Segment2(buf) == SubSeq(buf, Midpoint(buf) + 1, Len(buf))

analyzeAcceleration(item, buf, sr, vad) ==
  AccelerationResult(
    analyzeVolume(item, Segment1(buf)),
    analyzeVolume(item, Segment2(buf)),
    analyzeSpeechRate(item, Segment1(buf), sr,
                      HalfVAD(vad, FirstHalfSegments(vad, buf, sr), buf, sr)),
    analyzeSpeechRate(item, Segment2(buf), sr,
                      HalfVAD(vad, SecondHalfSegments(vad, buf, sr), buf, sr)))

\* one of the two analyzeSpeechRate calls on the halves does not return
AccelerationHangs(buf, sr) ==
  \/ SpeechRateHangs(Segment1(buf), sr)
  \/ SpeechRateHangs(Segment2(buf), sr)

----------------------------------------------------------------------------
(* Latency Analyzer *)

\* audioBuffer.slice(0, Math.min(Math.floor(sampleRate * 0.1), length))
NoiseSegment(buf, sr) == SubSeq(buf, 1, Min2(MathFloor(sr, 10), Len(buf)))

\* Math.abs(sample) > calculateAdaptiveNoiseFloor(audioBuffer, sampleRate):
\* the floor is 0.01 for an empty noise segment, else Math.max(0.005, rms * 3)
AboveNoiseFloor(sample, buf, sr) ==
  LET noise == NoiseSegment(buf, sr)
  IN IF Len(noise) = 0 THEN Abs(sample) > 10
     ELSE /\ Abs(sample) > 5
          /\ sample * sample * Len(noise) > 9 * SumSquares(noise)

\* the index the scan leaves in firstSoundSample (0-based); it starts as 0
FirstSoundSample(buf, sr) ==
  IF \E i \in 1..Len(buf) : AboveNoiseFloor(buf[i], buf, sr)
    THEN (CHOOSE i \in 1..Len(buf) :
            /\ AboveNoiseFloor(buf[i], buf, sr)
            /\ \A j \in 1..(i - 1) : ~AboveNoiseFloor(buf[j], buf, sr)) - 1
    ELSE 0

\* Math.round((firstSoundSample / sampleRate) * 1000); 0 / 0 is NaN
ResponseTimeMs(buf, sr) ==
  IF sr = 0 THEN NaN ELSE MathRound(FirstSoundSample(buf, sr) * 1000, sr)

\* ResponseTimeScore with maxMs read from thresholds.max
ResponseTimeScore_MaxFromMax(responseTimeMs, t) ==
  IF responseTimeMs = NaN THEN NaN
  ELSE IF responseTimeMs <= t.ideal THEN 100
  ELSE IF responseTimeMs <= t.max
    THEN ClampedScore(100 * (t.max - t.ideal) - 50 * (responseTimeMs - t.ideal),
                      t.max - t.ideal)
  ELSE ClampedScore(50 * (3000 - (responseTimeMs - t.max)), 3000)

\* maxMs is thresholds.min, idealMs is thresholds.ideal
ResponseTimeScore(responseTimeMs, t) ==
  IF responseTimeMs = NaN THEN NaN
  ELSE IF responseTimeMs <= t.ideal THEN 100
  ELSE IF responseTimeMs <= t.min
    THEN ClampedScore(100 * (t.min - t.ideal) - 50 * (responseTimeMs - t.ideal),
                      t.min - t.ideal)
  ELSE ClampedScore(50 * (3000 - (responseTimeMs - t.min)), 3000)

ResponseTimeResult(responseTimeMs, t) ==
  [responseTimeMs |-> responseTimeMs,
   score |-> ResponseTimeScore(responseTimeMs, t),
   tag |-> "READINESS"]

analyzeResponseTime(item, buf, sr) ==
  ResponseTimeResult(ResponseTimeMs(buf, sr),
                     ResolveThresholds(item, "responseTime", Thresholds(2000, 200, 0)))

----------------------------------------------------------------------------
(* Pause Analyzer *)

\* Math.floor(sampleRate * 0.05): 50 ms
PauseFrameSize(sr) == MathFloor(sr * 5, 100)

\* frame k (1-based) is silent: its mean absolute amplitude is below 0.01
IsSilentFrame(buf, sr, k) ==
  SumAbs(SubSeq(buf, (k - 1) * PauseFrameSize(sr) + 1, k * PauseFrameSize(sr)))
    < 10 * PauseFrameSize(sr)

\* silentFrames / Math.max(1, totalFrames) of the energy fallback
EnergyPauseRatio(buf, sr, totalFrames) ==
  [num |-> Cardinality({k \in 1..totalFrames : IsSilentFrame(buf, sr, k)}),
   den |-> Max2(1, totalFrames)]

\* PauseRatio taking the frame-energy estimate whether or not VAD metrics
\* are given
PauseRatio_EnergyOnly(buf, sr, vad) ==
  EnergyPauseRatio(buf, sr,
                   LoopCount(Len(buf) - PauseFrameSize(sr), PauseFrameSize(sr)))

\* the pause ratio as a fraction: 1 - speechRatio when VAD metrics are given,
\* else silentFrames / Math.max(1, totalFrames)
PauseRatio(buf, sr, vad) ==
  IF vad.present
    THEN [num |-> vad.speechRatio.den - vad.speechRatio.num, den |-> vad.speechRatio.den]
    ELSE EnergyPauseRatio(buf, sr,
                          LoopCount(Len(buf) - PauseFrameSize(sr), PauseFrameSize(sr)))

\* PauseScore without the tolerance of 0.1: 100 - (ratio / maxRatio) * 100
PauseScore_NoTolerance(ratio, maxRatio) ==
  IF ratio.num <= 0 THEN 100
  ELSE ClampedScore(100 * ratio.den * maxRatio - 10000 * ratio.num,
                    ratio.den * maxRatio)

\* 100 up to a ratio of 0.1, then Math.max(0, 100 - ((ratio - 0.1) / maxRatio) * 100),
\* maxRatio in hundredths
PauseScore(ratio, maxRatio) ==
  IF 10 * ratio.num <= ratio.den THEN 100
  ELSE ClampedScore(100 * ratio.den * maxRatio - 1000 * (10 * ratio.num - ratio.den),
                    ratio.den * maxRatio)

PauseResult(ratio, t) ==
  [pauseRatio |-> MathRound(100 * ratio.num, ratio.den),
   score |-> PauseScore(ratio, t.max),
   tag |-> "FLUIDITY"]

analyzePauses(item, buf, sr, vad) ==
  PauseResult(PauseRatio(buf, sr, vad),
              ResolveThresholds(item, "pauseManagement", Thresholds(0, 0, 271)))

\* the frame loop of the energy fallback does not end
PausesHang(buf, sr, vad) ==
  ~vad.present /\ LoopHangs(Len(buf) - PauseFrameSize(sr), PauseFrameSize(sr))

----------------------------------------------------------------------------
(* Score Aggregator *)

\* the keys calculateOverallScore reads from 'audio_metric_settings'
SettingsKeys == {"volume", "speechRate", "acceleration", "responseTime", "pauses"}

\* The item 'audio_metric_settings' as localStorage holds it: absent, or the
\* JSON text of an object; m maps each key of the object to its value
\* {enabled, weight}.  A list has the keys "0", "1", ...
AbsentSettings == [kind |-> "absent", m |-> << >>]

SettingsItem(m) == [kind |-> "object", m |-> m]

MetricSetting(enabled, weight) == [enabled |-> enabled, weight |-> weight]

RECURSIVE SumEnabled(_, _)
\* Object.values(metricSettings).filter(c => !!c?.enabled)
\*       .reduce((sum, c) => sum + (Number(c?.weight) || 0), 0)
SumEnabled(m, keys) ==
  IF keys = {} THEN 0
  ELSE LET k == CHOOSE x \in keys : TRUE
       IN (IF m[k].enabled THEN m[k].weight ELSE 0) + SumEnabled(m, keys \ {k})

\* the weights as numerators over the common denominator den
Weights(volume, speechRate, acceleration, responseTime, pauses, den) ==
  [volume |-> volume, speechRate |-> speechRate, acceleration |-> acceleration,
   responseTime |-> responseTime, pauses |-> pauses, den |-> den]

\* the initial value of `weights`: 0.40, 0.40, 0.05, 0.05, 0.10
HardcodedWeights == Weights(40, 40, 5, 5, 10, 100)

\* metricSettings.<key>.enabled ? metricSettings.<key>.weight / 100 : 0
SettingsWeight(m, key) == IF m[key].enabled THEN m[key].weight ELSE 0

\* the branch taken when 'audio_metric_settings' is stored.  Reading a key
\* the object lacks throws a TypeError, which the catch swallows: the
\* hardcoded weights stay.
WeightsFromSettings(settings) ==
  IF SumEnabled(settings.m, DOMAIN settings.m) > 0 /\ SettingsKeys \subseteq DOMAIN settings.m
    THEN Weights(SettingsWeight(settings.m, "volume"),
                 SettingsWeight(settings.m, "speechRate"),
                 SettingsWeight(settings.m, "acceleration"),
                 SettingsWeight(settings.m, "responseTime"),
                 SettingsWeight(settings.m, "pauses"), 100)
    ELSE HardcodedWeights

\* config.find((c) => c.id === id)?.weight ?? fallback
OldWeight(item, id, fallback) ==
  IF HasMetricConfig(item, id) THEN getMetricConfig(item, id).weight ELSE fallback

\* oldWeights divided by oldTotal, or all 0 when the total is 0
NormalizedWeights(volume, speechRate, acceleration, responseTime, pauseManagement) ==
  IF volume + speechRate + acceleration + responseTime + pauseManagement = 0
    THEN Weights(0, 0, 0, 0, 0, 1)
    ELSE Weights(volume, speechRate, acceleration, responseTime, pauseManagement,
                 volume + speechRate + acceleration + responseTime + pauseManagement)

\* WeightsFromConfig with the acceleration weight left out of the weighted
\* sum while still counted in the total: the weights no longer sum to 1
WeightsFromConfig_DropsAcceleration(item) ==
  [NormalizedWeights(OldWeight(item, "volume", 40),
                     OldWeight(item, "speechRate", 40),
                     OldWeight(item, "acceleration", 5),
                     OldWeight(item, "responseTime", 5),
                     OldWeight(item, "pauseManagement", 10))
     EXCEPT !.acceleration = 0]

\* the branch taken when 'audio_metric_settings' is absent: the weights of
\* 'metricConfig' divided by their total, or all 0 when the total is 0
WeightsFromConfig(item) ==
  NormalizedWeights(OldWeight(item, "volume", 40),
                    OldWeight(item, "speechRate", 40),
                    OldWeight(item, "acceleration", 5),
                    OldWeight(item, "responseTime", 5),
                    OldWeight(item, "pauseManagement", 10))

\* config.find on a stored value that is no list throws inside the try: the
\* catch leaves the hardcoded weights
ResolveWeights(settings, item) ==
  IF settings.kind = "object" THEN WeightsFromSettings(settings)
  ELSE IF FindThrows(item) THEN HardcodedWeights
  ELSE WeightsFromConfig(item)

\* the five scores handed to calculateOverallScore
Scores(volume, speechRate, acceleration, responseTime, pauses) ==
  [volume |-> volume, speechRate |-> speechRate, acceleration |-> acceleration,
   responseTime |-> responseTime, pauses |-> pauses]

\* Math.round(weightedSum); NaN * w is NaN, also for w = 0
WeightedRound(sc, w) ==
  IF NaN \in {sc.volume, sc.speechRate, sc.acceleration, sc.responseTime, sc.pauses}
    THEN NaN
    ELSE MathRound(sc.volume * w.volume + sc.speechRate * w.speechRate
                     + sc.acceleration * w.acceleration
                     + sc.responseTime * w.responseTime
                     + sc.pauses * w.pauses, w.den)

calculateOverallScore(sc, settings, item) ==
  WeightedRound(sc, ResolveWeights(settings, item))

\* every comparison with NaN is false
getEmotionalFeedback(score) ==
  IF score # NaN /\ score >= 70 THEN "excellent"
  ELSE IF score # NaN /\ score >= 40 THEN "good"
  ELSE "poor"

----------------------------------------------------------------------------
(* Main entry *)

NoAnalysis == [status |-> "none"]

\* the call does not return: one of the frame loops never ends
AnalysisHangs(buf, sr, vad) ==
  \/ SpeechRateHangs(buf, sr)
  \/ AccelerationHangs(buf, sr)
  \/ PausesHang(buf, sr, vad)

\* analyzeVolume or analyzeSpeechRate throws on reading its thresholds, before
\* any frame loop is entered; the promise analyzeAudioAsync returned rejects
ThrowsBeforeFrameLoops(item) ==
  ThresholdsThrow(item, "volume") \/ ThresholdsThrow(item, "speechRate")

\* analyzeResponseTime or analyzePauses throws on reading its thresholds;
\* analyzeAcceleration looks its entry up and never reads the thresholds
ThrowsAfterAcceleration(item) ==
  ThresholdsThrow(item, "responseTime") \/ ThresholdsThrow(item, "pauseManagement")

\* how the call ends, the five analyzers taken in the order of the body
Outcome(buf, sr, vad, item) ==
  IF ThrowsBeforeFrameLoops(item) THEN "threw"
  ELSE IF SpeechRateHangs(buf, sr) \/ AccelerationHangs(buf, sr) THEN "hang"
  ELSE IF ThrowsAfterAcceleration(item) THEN "threw"
  ELSE IF AnalysisHangs(buf, sr, vad) THEN "hang"
  ELSE "returned"

\* the object analyzeAudioAsync returns
ResultRecord(overallScore, volume, speechRate, acceleration, responseTime, pauses) ==
  [status |-> "returned",
   overallScore |-> overallScore,
   emotionalFeedback |-> getEmotionalFeedback(overallScore),
   volume |-> volume,
   speechRate |-> speechRate,
   acceleration |-> acceleration,
   responseTime |-> responseTime,
   pauses |-> pauses,
   normalization |-> Undefined]

\* calculateOverallScore on the five results, and the return statement
AnalysisResult(volume, speechRate, acceleration, responseTime, pauses, settings, item) ==
  ResultRecord(calculateOverallScore(Scores(volume.score, speechRate.score,
                                            acceleration.score, responseTime.score,
                                            pauses.score), settings, item),
               volume, speechRate, acceleration, responseTime, pauses)

\* analyzeAudioAsync without a deviceId: processedBuffer is audioBuffer
analyzeAudioAsync(buf, sr, vad, item, settings) ==
  IF Outcome(buf, sr, vad, item) # "returned" THEN [status |-> Outcome(buf, sr, vad, item)]
  ELSE AnalysisResult(analyzeVolume(item, buf),
                      analyzeSpeechRate(item, buf, sr, vad),
                      analyzeAcceleration(item, buf, sr, vad),
                      analyzeResponseTime(item, buf, sr),
                      analyzePauses(item, buf, sr, vad),
                      settings, item)

----------------------------------------------------------------------------
(* Loudness Normalizer: the branch of analyzeAudioAsync taken with a deviceId *)

\* the device ids that have a profile in the Calibration Store
CalibrationStore == {"calibrated-mic"}

\* the device ids a caller may supply; "none" stands for no deviceId
DeviceIds == {"none", "uncalibrated-mic", "calibrated-mic"}

\* the total gains calibrateAndNormalize may apply to the samples
NormalizerGains == {1, 2}

\* result.normalized of calibrateAndNormalize: a new buffer, every sample
\* multiplied by the gain
Normalized(buf, gain) == [i \in 1..Len(buf) |-> gain * buf[i]]

\* normalizationInfo, built from the result of calibrateAndNormalize whenever
\* a deviceId was given
NormalizationInfo(gain) == [normalizationGain |-> gain]

\* normalization: normalizationInfo in the returned object
WithNormalization(outcome, gain) ==
  IF outcome.status = "returned"
    THEN [outcome EXCEPT !.normalization = NormalizationInfo(gain)]
    ELSE outcome

----------------------------------------------------------------------------
(* Inputs of the model *)

\* sample amplitudes: silence, 0.006 (above the minimum noise floor of 0.005,
\* below the silence threshold of 0.01) and -0.5
Amplitudes == {0, 6, -500}

\* a buffer is an optional lead-in of 100 ms of silence (at 100 Hz) followed
\* by up to MaxLen arbitrary samples
LeadIns == {<< >>, << 0, 0, 0, 0, 0, 0, 0, 0, 0, 0 >>}

Bodies == UNION {[1..n -> Amplitudes] : n \in 0..MaxLen}

Buffers == {lead \o body : lead \in LeadIns, body \in Bodies}

\* 100 Hz is the lowest rate whose 20 ms frames advance (hopSize = 1)
SampleRates == {-100, 0, 50, 100}

VAD(segs, totalSpeechTime, totalSilenceTime, speechPercent) ==
  [present |-> TRUE, speechSegments |-> segs, totalSpeechTime |-> totalSpeechTime,
   totalSilenceTime |-> totalSilenceTime,
   speechRatio |-> [num |-> speechPercent, den |-> 100]]

VADs ==
  { NoVAD,
    VAD(<< Segment(0, 40) >>, 40, 10, 80),
    VAD(<< Segment(20, 40), Segment(100, 150) >>, 70, 80, 47) }

\* a configuration as the Settings page saves it
CustomConfig ==
  << MetricEntry("volume", 30, Thresholds(-40, -20, -5), "none"),
     MetricEntry("speechRate", 30, Thresholds(100, 300, 700), "vad-enhanced"),
     MetricEntry("acceleration", 20, Thresholds(0, 50, 100), "none"),
     MetricEntry("responseTime", 10, Thresholds(100, 20, 0), "none"),
     MetricEntry("pauseManagement", 10, Thresholds(0, 5, 50), "none") >>

\* distinct thresholds in an unusual order, and no entry for acceleration
OddConfig ==
  << MetricEntry("volume", 20, Thresholds(-10, -30, -50), "none"),
     MetricEntry("speechRate", 20, Thresholds(700, 300, 100), "energy-peaks"),
     MetricEntry("responseTime", 20, Thresholds(20, 100, 0), "none"),
     MetricEntry("pauseManagement", 20, Thresholds(10, 5, -20), "none") >>

ConfigItems == {AbsentItem, ListItem(CustomConfig), ListItem(OddConfig)}

\* the list with the thresholds of the entry `id` replaced
WithThresholds(config, id, th) ==
  [k \in 1..Len(config) |->
     IF config[k].id = id THEN [config[k] EXCEPT !.thresholds = th] ELSE config[k]]

\* the list with the method of its speechRate entry replaced
WithMethod(config, method) ==
  [k \in 1..Len(config) |->
     IF config[k].id = "speechRate" THEN [config[k] EXCEPT !.method = method]
                                    ELSE config[k]]

\* a list that holds an entry for speechRate only
PartialConfig ==
  << MetricEntry("speechRate", 40, Thresholds(100, 300, 700), "energy-peaks") >>

\* what the item 'metricConfig' may hold: nothing, text that does not parse,
\* a value that is no list, a list missing metric ids, lists with an entry
\* without thresholds, and lists with an entry whose thresholds coincide
StoredItems ==
  { AbsentItem, UnparsableItem, NotAListItem,
    ListItem(PartialConfig),
    ListItem(WithThresholds(DefaultConfig, "volume", Undefined)),
    ListItem(WithThresholds(DefaultConfig, "pauseManagement", Undefined)),
    ListItem(WithThresholds(DefaultConfig, "volume", Thresholds(-35, -15, -15))),
    ListItem(WithThresholds(DefaultConfig, "volume", Thresholds(-15, -15, 0))),
    ListItem(WithThresholds(DefaultConfig, "speechRate", Thresholds(0, 0, 220))) }

\* dB readings in 1/2000 dB: every quarter of a dB from -22 dB to +1 dB
Readings == {500 * k : k \in -88..4}

\* volume thresholds: the defaults, those of CustomConfig and OddConfig, and
\* one set with max equal to ideal
VolumeThresholds ==
  { Thresholds(-35, -15, 0), Thresholds(-40, -20, -5), Thresholds(-10, -30, -50),
    Thresholds(-35, -15, -15) }

\* two readings and the thresholds they are scored under
ReadingPair(db1, db2, th) ==
  [scored |-> FALSE, db1 |-> db1, db2 |-> db2, thresholds |-> th,
   score1 |-> 0, score2 |-> 0]

NoReadings == ReadingPair(0, 0, Thresholds(-35, -15, 0))

SettingsItems ==
  { AbsentSettings,
    SettingsItem([k \in SettingsKeys |->
                    MetricSetting(k # "acceleration", IF k = "volume" THEN 60 ELSE 20)]) }

NoScores == Scores(0, 0, 0, 0, 0)

----------------------------------------------------------------------------
(* The call in progress and the history variables *)

NoSnapshot == [set |-> FALSE]

\* the two localStorage items as they stand, with the version of the store
Stored ==
  [set |-> TRUE, config |-> metricConfig, settings |-> audioMetricSettings,
   version |-> storeVersion]

NoMemo == [set |-> FALSE]

\* no call is running and none has run
NoCallYet ==
  /\ pc = "idle"
  /\ partial = << >>
  /\ storeVersion = 0
  /\ observed = {}
  /\ snapshot = NoSnapshot
  /\ memo = NoMemo

\* no scan of frame energies has run
NoPulses == [scanned |-> FALSE, peaks |-> << >>, maxEnergy |-> 0]

NoPulseScan ==
  /\ scanEnergies = << >>
  /\ scanSpeech = {}
  /\ pulses = NoPulses

\* the admin MetricsTab is not mounted
NoMetricsTab == metrics = << >>

\* useAudioRecorder before any recording: isRecording false, audioBuffer null
IdleRecorder == [isRecording |-> FALSE, audioBuffer |-> "null", toDeliver |-> {}]

\* the Index page as mounted: useState('idle'), useState(null)
NoPage ==
  /\ appState = "idle"
  /\ results = "null"
  /\ recorder = IdleRecorder
  /\ calls = 0
  /\ timeouts = 0

----------------------------------------------------------------------------
(* Specification of one analysis call *)

Init ==
  /\ audioBuffer \in Buffers
  /\ sampleRate \in SampleRates
  /\ deviceId = "none"
  /\ readings = NoReadings
  /\ vadMetrics \in VADs
  /\ metricConfig \in ConfigItems
  /\ audioMetricSettings \in SettingsItems
  /\ result = NoAnalysis
  /\ scores = NoScores
  /\ overall = [done |-> FALSE, value |-> 0]
  /\ NoCallYet
  /\ NoPulseScan
  /\ NoMetricsTab
  /\ NoPage

\* the caller's VADMetrics object with the segments of the second half
\* shifted in place, as s.start -= midpointMs would leave them
VADAfterCall_ShiftedInPlace(vad, buf, sr) ==
  IF ~vad.present \/ sr <= 0 THEN vad
  ELSE [vad EXCEPT !.speechSegments =
          [k \in 1..Len(vad.speechSegments) |->
             IF vad.speechSegments[k].start * sr >= Len(buf) * 500
               THEN [vad.speechSegments[k] EXCEPT
                       !.start = @ - MidpointMs(buf, sr), !.end = @ - MidpointMs(buf, sr)]
               ELSE vad.speechSegments[k]]]

\* the caller's VADMetrics object after the call: analyzeAcceleration builds
\* its halves with filter, map and object spreads, which create new arrays
\* and new segment objects, and no analyzer assigns to a field of vadMetrics
VADAfterCall(vad, buf, sr) == vad

\* the caller's buffer after the call: the analyzers read it by index and
\* analyzeAcceleration takes its halves with slice, which copies
BufferAfterCall(buf) == buf

\* Index.tsx processAudio: the call analyzeAudioAsync(audioBuffer, sampleRate, ...)
Analyze ==
  /\ result.status = "none"
  /\ deviceId = "none"
  /\ result' = analyzeAudioAsync(audioBuffer, sampleRate, vadMetrics,
                                 metricConfig, audioMetricSettings)
  /\ audioBuffer' = BufferAfterCall(audioBuffer)
  /\ vadMetrics' = VADAfterCall(vadMetrics, audioBuffer, sampleRate)
  /\ snapshot' = Stored
  /\ observed' = {storeVersion}
  /\ UNCHANGED << scanVars, metrics, pageVars, sampleRate, readings, deviceId, metricConfig,
                  audioMetricSettings, scores, overall, pc, partial,
                  storeVersion, memo >>

Next == Analyze

Spec == Init /\ [][Next]_vars

----------------------------------------------------------------------------
(* Specification of the Score Aggregator alone: calculateOverallScore applied *)
(* to five given scores under every stored weight configuration              *)

ScoreTuples ==
  {Scores(x, x, x, x, x) : x \in 0..100}
    \cup {Scores(a, b, c, d, e) : a \in {0, 100}, b \in {0, 100}, c \in {0, 100},
                                  d \in {0, 100}, e \in {0, 100}}
    \cup {Scores(12, 55, 80, 37, 100)}

\* 'audio_metric_settings': every object over the five keys with each metric
\* disabled, enabled at weight 0 or enabled at weight 60, and one list
AggSettings ==
  {SettingsItem(m) :
     m \in [SettingsKeys -> {MetricSetting(FALSE, 60), MetricSetting(TRUE, 0),
                             MetricSetting(TRUE, 60)}]}
    \cup {SettingsItem([k \in {"0", "1"} |->
                          MetricSetting(TRUE, IF k = "0" THEN 60 ELSE 40)])}

WeightedConfig(w) ==
  << MetricEntry("volume", w[1], Thresholds(-35, -15, 0), "none"),
     MetricEntry("speechRate", w[2], Thresholds(90, 150, 220), "energy-peaks"),
     MetricEntry("acceleration", w[3], Thresholds(0, 50, 100), "none"),
     MetricEntry("responseTime", w[4], Thresholds(2000, 200, 0), "none"),
     MetricEntry("pauseManagement", w[5], Thresholds(0, 0, 271), "none") >>

\* 'metricConfig': absent, every list of the five entries with weights 0 or
\* 60, and the list without an entry for acceleration
AggConfigs ==
  {AbsentItem, ListItem(OddConfig)}
    \cup {ListItem(WeightedConfig(w)) : w \in [1..5 -> {0, 60}]}

InitAgg ==
  /\ audioBuffer = << >>
  /\ sampleRate = 100
  /\ deviceId = "none"
  /\ readings = NoReadings
  /\ vadMetrics = NoVAD
  /\ \/ audioMetricSettings \in AggSettings /\ metricConfig = AbsentItem
     \/ audioMetricSettings = AbsentSettings /\ metricConfig \in AggConfigs
  /\ result = NoAnalysis
  /\ scores \in ScoreTuples
  /\ overall = [done |-> FALSE, value |-> 0]
  /\ NoCallYet
  /\ NoPulseScan
  /\ NoMetricsTab
  /\ NoPage

Aggregate ==
  /\ ~overall.done
  /\ overall' = [done |-> TRUE,
                 value |-> calculateOverallScore(scores, audioMetricSettings, metricConfig)]
  /\ UNCHANGED << scanVars, metrics, pageVars, audioBuffer, sampleRate, readings, deviceId, vadMetrics, metricConfig,
                  audioMetricSettings, result, scores, pc, partial,
                  storeVersion, observed, snapshot, memo >>

NextAgg == Aggregate

SpecAgg == InitAgg /\ [][NextAgg]_vars

----------------------------------------------------------------------------
(* Specification of repeated calls: recordings are retaken and settings are *)
(* saved between calls to analyzeAudioAsync                                 *)

\* the recordings of this specification
DetBuffers ==
  { << >>,
    << -500 >>,
    << 0, 6, -500 >>,
    << -500, 0, 0, -500, 6 >>,
    << 0, 0, 0, 0, 0, 0, 0, 0, 0, 0, -500, 6, -500 >> }

\* the configurations the Settings page saves
SavedConfigs == {CustomConfig, OddConfig, WithMethod(CustomConfig, "deepgram-stt")}

InitDet ==
  /\ audioBuffer \in DetBuffers
  /\ sampleRate \in {50, 100}
  /\ deviceId = "none"
  /\ readings = NoReadings
  /\ vadMetrics \in VADs
  /\ metricConfig \in ConfigItems
  /\ audioMetricSettings \in SettingsItems
  /\ result = NoAnalysis
  /\ scores = NoScores
  /\ overall = [done |-> FALSE, value |-> 0]
  /\ NoCallYet
  /\ NoPulseScan
  /\ NoMetricsTab
  /\ NoPage

\* a body that awaits after the first analyzer
SuspensionPoints_AfterVolume == {"speechRate"}

\* positions inside the body of analyzeAudioAsync at which the call awaits
\* and other handlers get to run: the body has no await
SuspensionPoints == {}

\* the event loop starts a handler only when no call is executing
CanRunHandler == pc = "idle" \/ pc \in SuspensionPoints

\* Index.tsx handleRetry / handleStartRecording: the result is cleared and
\* the next recording delivers another buffer
StartRecording(buf) ==
  /\ CanRunHandler
  /\ result.status # "none"
  /\ audioBuffer' = buf
  /\ result' = NoAnalysis
  /\ UNCHANGED << scanVars, metrics, pageVars, sampleRate, readings, deviceId, vadMetrics, metricConfig,
                  audioMetricSettings, scores, overall, pc, partial,
                  storeVersion, observed, snapshot, memo >>

\* Settings.tsx handleSave: localStorage.setItem('metricConfig', ...)
SaveSettings(config) ==
  /\ CanRunHandler
  /\ storeVersion < MaxSaves
  /\ metricConfig' = ListItem(config)
  /\ storeVersion' = storeVersion + 1
  /\ UNCHANGED << scanVars, metrics, pageVars, audioBuffer, sampleRate, readings, deviceId, vadMetrics,
                  audioMetricSettings, result, scores, overall, pc, partial,
                  observed, snapshot, memo >>

\* the caller keeps the outcome of a finished call together with the
\* arguments and the store the call ran with
Remember ==
  /\ ~memo.set
  /\ result.status # "none"
  /\ memo' = [set |-> TRUE, audioBuffer |-> audioBuffer, sampleRate |-> sampleRate,
              deviceId |-> deviceId, vadMetrics |-> vadMetrics,
              config |-> snapshot.config, settings |-> snapshot.settings,
              version |-> snapshot.version, result |-> result]
  /\ UNCHANGED << scanVars, metrics, pageVars, audioBuffer, sampleRate, readings, deviceId, vadMetrics, metricConfig,
                  audioMetricSettings, result, scores, overall, pc, partial,
                  storeVersion, observed, snapshot >>

NextDet ==
  \/ Analyze
  \/ Remember
  \/ \E buf \in DetBuffers : StartRecording(buf)
  \/ \E config \in SavedConfigs : SaveSettings(config)

SpecDet == InitDet /\ [][NextDet]_vars

----------------------------------------------------------------------------
(* Specification of one call taken statement by statement, with settings    *)
(* saves running whenever the event loop allows                             *)

InitSnap ==
  /\ audioBuffer \in Bodies
  /\ sampleRate \in {50, 100}
  /\ deviceId = "none"
  /\ readings = NoReadings
  /\ vadMetrics \in {NoVAD, VAD(<< Segment(0, 40) >>, 40, 10, 80)}
  /\ metricConfig \in ConfigItems
  /\ audioMetricSettings \in SettingsItems
  /\ result = NoAnalysis
  /\ scores = NoScores
  /\ overall = [done |-> FALSE, value |-> 0]
  /\ NoCallYet
  /\ NoPulseScan
  /\ NoMetricsTab
  /\ NoPage

\* the call is at statement `at`, runs it and moves to `to`
Step(at, to) ==
  /\ pc = at
  /\ pc' = to
  /\ observed' = observed \cup {storeVersion}
  /\ UNCHANGED << scanVars, metrics, pageVars, audioBuffer, sampleRate, readings, deviceId, vadMetrics, metricConfig,
                  audioMetricSettings, scores, overall, storeVersion, snapshot,
                  memo >>

\* entry of analyzeAudioAsync without a deviceId
StartAnalysis ==
  /\ pc = "idle"
  /\ result.status = "none"
  /\ deviceId = "none"
  /\ pc' = "volume"
  /\ partial' = << >>
  /\ observed' = {}
  /\ snapshot' = Stored
  /\ UNCHANGED << scanVars, metrics, pageVars, audioBuffer, sampleRate, readings, deviceId, vadMetrics, metricConfig,
                  audioMetricSettings, result, scores, overall, storeVersion,
                  memo >>

\* const volume = analyzeVolume(processedBuffer)
StepVolume ==
  /\ Step("volume", "speechRate")
  /\ partial' = partial @@ ("volume" :> analyzeVolume(metricConfig, audioBuffer))
  /\ UNCHANGED result

\* const speechRate = analyzeSpeechRate(...); a frame loop that never ends
\* keeps the call, and the thread, at this statement
StepSpeechRate ==
  /\ ~SpeechRateHangs(audioBuffer, sampleRate)
  /\ Step("speechRate", "acceleration")
  /\ partial' = partial @@ ("speechRate" :>
                   analyzeSpeechRate(metricConfig, audioBuffer, sampleRate, vadMetrics))
  /\ UNCHANGED result

\* const acceleration = analyzeAcceleration(...)
StepAcceleration ==
  /\ ~AccelerationHangs(audioBuffer, sampleRate)
  /\ Step("acceleration", "responseTime")
  /\ partial' = partial @@ ("acceleration" :>
                   analyzeAcceleration(metricConfig, audioBuffer, sampleRate, vadMetrics))
  /\ UNCHANGED result

\* const responseTime = analyzeResponseTime(...)
StepResponseTime ==
  /\ Step("responseTime", "pauses")
  /\ partial' = partial @@ ("responseTime" :>
                   analyzeResponseTime(metricConfig, audioBuffer, sampleRate))
  /\ UNCHANGED result

\* const pauses = analyzePauses(...)
StepPauses ==
  /\ ~PausesHang(audioBuffer, sampleRate, vadMetrics)
  /\ Step("pauses", "overall")
  /\ partial' = partial @@ ("pauses" :>
                   analyzePauses(metricConfig, audioBuffer, sampleRate, vadMetrics))
  /\ UNCHANGED result

\* const overallScore = calculateOverallScore({...}); return {...}
StepOverall ==
  /\ Step("overall", "idle")
  /\ result' = AnalysisResult(partial.volume, partial.speechRate, partial.acceleration,
                              partial.responseTime, partial.pauses,
                              audioMetricSettings, metricConfig)
  /\ UNCHANGED partial

NextSnap ==
  \/ StartAnalysis
  \/ StepVolume
  \/ StepSpeechRate
  \/ StepAcceleration
  \/ StepResponseTime
  \/ StepPauses
  \/ StepOverall
  \/ \E config \in SavedConfigs : SaveSettings(config)

SpecSnap == InitSnap /\ [][NextSnap]_vars

----------------------------------------------------------------------------
(* Specification of one analysis call under everything the item             *)
(* 'metricConfig' may hold                                                   *)

InitConf ==
  /\ audioBuffer \in Bodies
  /\ sampleRate \in {50, 100}
  /\ deviceId = "none"
  /\ readings = NoReadings
  /\ vadMetrics \in VADs
  /\ metricConfig \in StoredItems
  /\ audioMetricSettings \in SettingsItems
  /\ result = NoAnalysis
  /\ scores = NoScores
  /\ overall = [done |-> FALSE, value |-> 0]
  /\ NoCallYet
  /\ NoPulseScan
  /\ NoMetricsTab
  /\ NoPage

NextConf == Analyze

SpecConf == InitConf /\ [][NextConf]_vars

----------------------------------------------------------------------------
(* Specification of the scoring of analyzeVolume alone: two dB readings      *)
(* scored under the same thresholds                                          *)

InitVol ==
  /\ audioBuffer = << >>
  /\ sampleRate = 100
  /\ deviceId = "none"
  /\ readings \in {ReadingPair(db1, db2, th) :
                      db1 \in Readings, db2 \in Readings, th \in VolumeThresholds}
  /\ vadMetrics = NoVAD
  /\ metricConfig = AbsentItem
  /\ audioMetricSettings = AbsentSettings
  /\ result = NoAnalysis
  /\ scores = NoScores
  /\ overall = [done |-> FALSE, value |-> 0]
  /\ NoCallYet
  /\ NoPulseScan
  /\ NoMetricsTab
  /\ NoPage

\* the score calculation of analyzeVolume applied to both readings
ScoreReadings ==
  /\ ~readings.scored
  /\ readings' = [readings EXCEPT
                    !.scored = TRUE,
                    !.score1 = VolumeScore(readings.db1, readings.thresholds),
                    !.score2 = VolumeScore(readings.db2, readings.thresholds)]
  /\ UNCHANGED << scanVars, metrics, pageVars, audioBuffer, sampleRate, deviceId, vadMetrics, metricConfig,
                  audioMetricSettings, result, scores, overall, pc, partial,
                  storeVersion, observed, snapshot, memo >>

NextVol == ScoreReadings

SpecVol == InitVol /\ [][NextVol]_vars

----------------------------------------------------------------------------
(* Specification of one analysis call with and without a deviceId           *)

InitDev ==
  /\ audioBuffer \in Bodies
  /\ sampleRate \in {50, 100}
  /\ deviceId \in DeviceIds
  /\ readings = NoReadings
  /\ vadMetrics \in VADs
  /\ metricConfig \in ConfigItems
  /\ audioMetricSettings \in SettingsItems
  /\ result = NoAnalysis
  /\ scores = NoScores
  /\ overall = [done |-> FALSE, value |-> 0]
  /\ NoCallYet
  /\ NoPulseScan
  /\ NoMetricsTab
  /\ NoPage

\* analyzeAudioAsync called with a deviceId: calibrateAndNormalize runs, the
\* analyzers get result.normalized and the result carries normalizationInfo
AnalyzeWithDevice ==
  /\ result.status = "none"
  /\ deviceId # "none"
  /\ \E gain \in NormalizerGains :
       result' = WithNormalization(
                   analyzeAudioAsync(Normalized(audioBuffer, gain), sampleRate,
                                     vadMetrics, metricConfig, audioMetricSettings),
                   gain)
  /\ vadMetrics' = VADAfterCall(vadMetrics, audioBuffer, sampleRate)
  /\ snapshot' = Stored
  /\ observed' = {storeVersion}
  /\ UNCHANGED << scanVars, metrics, pageVars, audioBuffer, sampleRate, readings, deviceId, metricConfig,
                  audioMetricSettings, scores, overall, pc, partial,
                  storeVersion, memo >>

NextDev ==
  \/ Analyze
  \/ AnalyzeWithDevice

SpecDev == InitDev /\ [][NextDev]_vars

----------------------------------------------------------------------------
(* Properties of one analysis call (specification Spec) *)

Returned == result.status = "returned"

IsScore(x) == x \in 0..100

\* min, ideal and max of every metric's thresholds are pairwise distinct
DistinctThresholds(item) ==
  \A e \in {getConfig(item)[i] : i \in 1..Len(getConfig(item))} :
    /\ e.thresholds.min # e.thresholds.ideal
    /\ e.thresholds.ideal # e.thresholds.max
    /\ e.thresholds.min # e.thresholds.max

SpeechRatioInUnit(vad) ==
  vad.speechRatio.num >= 0 /\ vad.speechRatio.num <= vad.speechRatio.den

\* C1: for a non-empty buffer, a positive sample rate, VAD metrics with
\* speechRatio in [0,1] and thresholds with distinct min/ideal/max, each of
\* the five per-metric scores analyzeAudioAsync returns is an integer in
\* [0,100], never NaN.
C1_PerMetricScoresInRange ==
  (/\ Returned
   /\ Len(audioBuffer) > 0
   /\ sampleRate > 0
   /\ SpeechRatioInUnit(vadMetrics)
   /\ DistinctThresholds(metricConfig))
    => /\ IsScore(result.volume.score)
       /\ IsScore(result.speechRate.score)
       /\ IsScore(result.acceleration.score)
       /\ IsScore(result.responseTime.score)
       /\ IsScore(result.pauses.score)

\* no sample of the buffer is above the adaptive noise floor
NoSoundAboveFloor(buf, sr) ==
  \A i \in 1..Len(buf) : ~AboveNoiseFloor(buf[i], buf, sr)

\* C3: when no sample is above the adaptive noise floor, the reported
\* responseTimeMs is the duration of the whole buffer in milliseconds, and
\* the score is the score of that value.
C3_SilentBufferReportsDuration ==
  (/\ Returned
   /\ sampleRate > 0
   /\ NoSoundAboveFloor(audioBuffer, sampleRate))
    => /\ result.responseTime.responseTimeMs
            = MathRound(Len(audioBuffer) * 1000, sampleRate)
       /\ result.responseTime.score
            = ResponseTimeScore(MathRound(Len(audioBuffer) * 1000, sampleRate),
                                ResolveThresholds(metricConfig, "responseTime",
                                                  Thresholds(2000, 200, 0)))

\* C4: a call with an empty buffer or with a sample rate that is not
\* positive never returns an AnalysisResult.
C4_InvalidInputNeverReturns ==
  (Len(audioBuffer) = 0 \/ sampleRate <= 0) => ~Returned

\* the bucket of a number with the breakpoints 40 and 70; NaN is in none
Bucket(score) ==
  IF score = NaN THEN "none"
  ELSE IF score >= 70 THEN "excellent"
  ELSE IF score >= 40 THEN "good"
  ELSE "poor"

\* C8: in every AnalysisResult emotionalFeedback is the bucket of the same
\* result's overallScore: 'excellent' iff overallScore >= 70, 'good' iff
\* 40 <= overallScore < 70, 'poor' iff overallScore < 40.
C8_FeedbackIsBucketOfOverall ==
  Returned => result.emotionalFeedback = Bucket(result.overallScore)

----------------------------------------------------------------------------
(* Properties of the Score Aggregator (specification SpecAgg) *)

\* C2: for five scores in [0,100] and every stored weight configuration with
\* non-negative weights, the overall score is an integer in [0,100].
C2_OverallInRange ==
  overall.done => IsScore(overall.value)

\* the score that belongs to a key of 'audio_metric_settings'
ScoreOfKey(sc, key) ==
  CASE key = "volume" -> sc.volume
    [] key = "speechRate" -> sc.speechRate
    [] key = "acceleration" -> sc.acceleration
    [] key = "responseTime" -> sc.responseTime
    [] key = "pauses" -> sc.pauses

\* the key of 'audio_metric_settings' that belongs to an id of 'metricConfig'
KeyOfId(id) == IF id = "pauseManagement" THEN "pauses" ELSE id

\* the metric stands in the store with enabled = true and weight > 0
SettingOn(m, key) == m[key].enabled /\ m[key].weight > 0

\* 'audio_metric_settings' holds the five metrics and only `key` is on
OnlyKeyOn(settings, key) ==
  /\ settings.kind = "object"
  /\ DOMAIN settings.m = SettingsKeys
  /\ \A k \in SettingsKeys : SettingOn(settings.m, k) <=> k = key

\* 'metricConfig' alone is stored, holds the five metrics, and only `id` has
\* a weight above 0
OnlyIdOn(settings, item, id) ==
  /\ settings.kind = "absent"
  /\ item.kind = "list"
  /\ \A i \in MetricIds : HasMetricConfig(item, i)
  /\ \A i \in MetricIds : getMetricConfig(item, i).weight > 0 <=> i = id

\* C5: when exactly one metric is enabled with a weight above 0 and all
\* others are disabled or have weight 0, the overall score is that metric's
\* own score.
C5_SingleMetricOverallIsItsScore ==
  overall.done =>
    /\ \A key \in SettingsKeys :
         OnlyKeyOn(audioMetricSettings, key)
           => overall.value = ScoreOfKey(scores, key)
    /\ \A id \in MetricIds :
         OnlyIdOn(audioMetricSettings, metricConfig, id)
           => overall.value = ScoreOfKey(scores, KeyOfId(id))

\* the weights of the store in use total zero
WeightsTotalZero(settings, item) ==
  \/ /\ settings.kind = "object"
     /\ DOMAIN settings.m = SettingsKeys
     /\ \A k \in SettingsKeys : ~SettingOn(settings.m, k)
  \/ /\ settings.kind = "absent"
     /\ item.kind = "list"
     /\ \A i \in MetricIds : HasMetricConfig(item, i)
     /\ \A i \in MetricIds : getMetricConfig(item, i).weight = 0

\* C6: whenever the weights of the store in use total zero, the overall
\* score is 0, whatever the five scores are.
C6_ZeroWeightsOverallIsZero ==
  (overall.done /\ WeightsTotalZero(audioMetricSettings, metricConfig))
    => overall.value = 0

\* nothing is stored: the default weights 40/40/5/5/10 apply
NoStoredConfiguration ==
  audioMetricSettings.kind = "absent" /\ metricConfig.kind = "absent"

AllScoresEqual(sc, s) == sc = Scores(s, s, s, s, s)

\* C7: with the default weights (no stored configuration), if all five
\* scores equal the same integer s in [0,100], the overall score is s.
C7_DefaultWeightsUniformScores ==
  (overall.done /\ NoStoredConfiguration)
    => \A s \in 0..100 : AllScoresEqual(scores, s) => overall.value = s

\* the case of C7 with s = 80
C7_Witness ==
  /\ overall.done
  /\ NoStoredConfiguration
  /\ AllScoresEqual(scores, 80)
  /\ overall.value = 80

----------------------------------------------------------------------------
(* Properties of repeated calls (specification SpecDet) *)

\* the last call had the arguments and the stored configuration of the
\* remembered call
SameCallAsRemembered ==
  /\ memo.set
  /\ result.status # "none"
  /\ memo.audioBuffer = audioBuffer
  /\ memo.sampleRate = sampleRate
  /\ memo.deviceId = deviceId
  /\ memo.vadMetrics = vadMetrics
  /\ memo.config = snapshot.config
  /\ memo.settings = snapshot.settings

----------------------------------------------------------------------------
(* Properties of a call taken statement by statement (specification SpecSnap) *)

\* C10: the five analyzers and the aggregator of one call all read the same
\* version of the store, and the result is the result of the whole analysis
\* under the store as it was when the call began, however saves are
\* interleaved with calls.
C10_OneStoreVersionPerCall ==
  Returned =>
    /\ observed = {snapshot.version}
    /\ result = analyzeAudioAsync(audioBuffer, sampleRate, vadMetrics,
                                  snapshot.config, snapshot.settings)

\* a call that began after one save has returned, and a later save has
\* replaced the configuration it ran with
C10_Witness ==
  /\ Returned
  /\ pc = "idle"
  /\ snapshot.version = 1
  /\ storeVersion = 2
  /\ metricConfig # snapshot.config
  /\ Len(audioBuffer) > 1

----------------------------------------------------------------------------
(* Properties of configuration resolution (specification SpecConf) *)

\* the call has ended: it returned, threw or stopped returning
Finished == result.status # "none"

\* C11: whatever the item 'metricConfig' holds (absent, unparsable, parsable
\* but not a list, missing a metric id, an entry without thresholds), the
\* analysis call does not throw because of configuration.
C11_ConfigurationNeverThrows ==
  Finished => result.status # "threw"

\* ideal == min or max == ideal
DegenerateThresholds(t) == t.ideal = t.min \/ t.max = t.ideal

\* C12: when the resolved thresholds of volume or of speechRate are
\* degenerate (ideal == min or max == ideal), the analyzer scores the call
\* with the built-in default thresholds, and the score is an integer in
\* [0,100].
C12_DegenerateThresholdsUseDefaults ==
  (Returned /\ Len(audioBuffer) > 0) =>
    /\ DegenerateThresholds(ResolveThresholds(metricConfig, "volume",
                                              Thresholds(-35, -15, 0)))
         => /\ IsScore(result.volume.score)
            /\ result.volume.score
                 = VolumeScore(Db2000(audioBuffer), Thresholds(-35, -15, 0))
    /\ DegenerateThresholds(ResolveThresholds(metricConfig, "speechRate",
                                              Thresholds(90, 150, 220)))
         => /\ IsScore(result.speechRate.score)
            /\ result.speechRate.score
                 = SpeechRateScore(result.speechRate.wordsPerMinute,
                                   Thresholds(90, 150, 220))

----------------------------------------------------------------------------
(* Properties of the volume score (specification SpecVol) *)

\* the reading lies in [ideal, max]
InIdealToMax(db, t) == db >= 2000 * t.ideal /\ db <= 2000 * t.max

\* a <= b on JavaScript numbers: false when either is NaN
LessOrEqual(a, b) == a # NaN /\ b # NaN /\ a <= b

\* C13: for two dB readings db1 <= db2 that both lie in [ideal, max], the
\* volume score for db2 is less than or equal to the volume score for db1.
C13_VolumeScoreFallsAboveIdeal ==
  (/\ readings.scored
   /\ readings.db1 <= readings.db2
   /\ InIdealToMax(readings.db1, readings.thresholds)
   /\ InIdealToMax(readings.db2, readings.thresholds))
    => LessOrEqual(readings.score2, readings.score1)

\* C13 for thresholds with ideal below max
C13_HoldsWhenIdealBelowMax ==
  readings.thresholds.ideal < readings.thresholds.max
    => C13_VolumeScoreFallsAboveIdeal

----------------------------------------------------------------------------
(* Properties of the analyzers within one call (specification Spec) *)

\* every sample of the buffer is 0
AllZero(buf) == \A i \in 1..Len(buf) : buf[i] = 0

\* the volume thresholds in force are {min: -35, ideal: -15, max: 0}
DefaultVolumeThresholds(item) ==
  ResolveThresholds(item, "volume", Thresholds(-35, -15, 0)) = Thresholds(-35, -15, 0)

\* C14: for an all-zero buffer and the default volume thresholds, the
\* Volume Analyzer reports averageDb = -200 dB (the rms clamped to 1e-10)
\* and a volume score of 0.
C14_SilentBufferVolume ==
  (/\ Returned
   /\ Len(audioBuffer) > 0
   /\ AllZero(audioBuffer)
   /\ DefaultVolumeThresholds(metricConfig))
    => /\ result.volume.averageDb = -2000
       /\ result.volume.score = 0

\* 100 ms of zeros analysed with nothing stored
C14_Witness ==
  /\ Returned
  /\ audioBuffer = << 0, 0, 0, 0, 0, 0, 0, 0, 0, 0 >>
  /\ metricConfig = AbsentItem
  /\ result.volume.averageDb = -2000
  /\ result.volume.score = 0

\* C15: for every non-empty all-zero buffer analysed without VAD metrics,
\* the Pause Analyzer reports pauseRatio = 1.0, whatever the buffer length.
C15_SilentBufferPauseRatio ==
  (/\ Returned
   /\ Len(audioBuffer) > 0
   /\ AllZero(audioBuffer)
   /\ ~vadMetrics.present)
    => result.pauses.pauseRatio = 100

\* both halves hold samples and the mean square, hence the RMS, of the
\* second half is above that of the first
SecondHalfLouder(buf) ==
  /\ Len(Segment1(buf)) > 0
  /\ SumSquares(Segment2(buf)) * Len(Segment1(buf))
       > SumSquares(Segment1(buf)) * Len(Segment2(buf))

\* C16: whenever the second half of the buffer has a higher RMS than the
\* first half, the Dynamics Analyzer returns isAccelerating = true and a
\* score strictly greater than 50.
C16_LouderSecondHalfAccelerates ==
  (Returned /\ SecondHalfLouder(audioBuffer))
    => /\ result.acceleration.isAccelerating
       /\ result.acceleration.score # NaN
       /\ result.acceleration.score > 50

NoFrameInSpeech(buf, sr, vad) ==
  SpeechFrames(FrameEnergies(buf, sr), vad, sr) = {}

\* C20: when speech segments are supplied and non-empty but no analysis
\* frame falls inside any of them, the Unit-Rate Analyzer returns the
\* wordsPerMinute, score and method tag Basic mode produces for the buffer.
C20_NoFrameInSpeechIsBasicMode ==
  (/\ Returned
   /\ Len(audioBuffer) > 0
   /\ sampleRate > 0
   /\ UseVAD(vadMetrics)
   /\ NoFrameInSpeech(audioBuffer, sampleRate, vadMetrics))
    => result.speechRate
         = analyzeSpeechRate(metricConfig, audioBuffer, sampleRate, NoVAD)

----------------------------------------------------------------------------
(* Properties of a call with a deviceId (specification SpecDev) *)

\* C17: when no device id is supplied, or no calibration profile exists for
\* the supplied device id, the Loudness Normalizer is skipped: the result is
\* the analysis of the raw input buffer and carries no normalization record.
C17_NormalizerSkippedWithoutProfile ==
  (Returned /\ Len(audioBuffer) > 0 /\ deviceId \notin CalibrationStore)
    => /\ result.normalization = Undefined
       /\ result = analyzeAudioAsync(audioBuffer, sampleRate, vadMetrics,
                                     metricConfig, audioMetricSettings)

----------------------------------------------------------------------------
(* Properties of repeated calls under saved configurations (specification SpecDet) *)

\* the two stored items differ at most in the method of the speechRate entry
SameButMethod(a, b) ==
  /\ a.kind = b.kind
  /\ WithMethod(a.entries, "none") = WithMethod(b.entries, "none")

\* C18: two analysis calls with identical inputs whose stored configurations
\* differ only in the method of the speechRate entry have identical
\* outcomes, the reported speechRate.method included.
C18_MethodTagDoesNotMatter ==
  (/\ memo.set
   /\ result.status # "none"
   /\ memo.audioBuffer = audioBuffer
   /\ memo.sampleRate = sampleRate
   /\ memo.deviceId = deviceId
   /\ memo.vadMetrics = vadMetrics
   /\ memo.settings = snapshot.settings
   /\ SameButMethod(memo.config, snapshot.config))
    => result = memo.result

\* the remembered call ran under 'vad-enhanced' and the last call, on the
\* same inputs, under 'deepgram-stt'
C18_Witness ==
  /\ memo.set
  /\ Returned
  /\ memo.audioBuffer = audioBuffer
  /\ memo.sampleRate = sampleRate
  /\ memo.vadMetrics = vadMetrics
  /\ memo.settings = snapshot.settings
  /\ memo.config = ListItem(CustomConfig)
  /\ snapshot.config = ListItem(WithMethod(CustomConfig, "deepgram-stt"))
  /\ result = memo.result
  /\ Len(audioBuffer) > 1

----------------------------------------------------------------------------
(* Specification of the pulse scans of detectSyllablesFromPeaks and        *)
(* detectSyllablesWithVAD alone, on sequences of frame energies            *)

\* most frames in a scanned sequence
MaxFrames == 7

\* frame energies: silence, a frame below 0.15 of the loudest, a loud frame
EnergyLevels == {0, 1, 10}

RECURSIVE EnergySeqs(_)
EnergySeqs(n) ==
  IF n = 0 THEN {<< >>}
  ELSE EnergySeqs(n - 1) \cup
       {Append(e, x) : e \in {f \in EnergySeqs(n - 1) : Len(f) = n - 1}, x \in EnergyLevels}

\* the frames isWithinSpeech accepts: none, a run from the first frame or a
\* run up to the last one
SpeechRuns(n) == {{}} \cup {1..b : b \in 1..n} \cup {a..n : a \in 1..n}

\* what a scan leaves: the frames counted and the maximum the threshold was
\* taken from (Math.max() of no frame is -Infinity and nothing is counted)
Pulses(energies, within) ==
  IF within = {} THEN [scanned |-> TRUE, peaks |-> << >>, maxEnergy |-> 0]
  ELSE [scanned |-> TRUE,
        peaks |-> PeakScan(energies, within, MaxOf(energies, within), 2, -9),
        maxEnergy |-> MaxOf(energies, within)]

InitPulse ==
  /\ audioBuffer = << >>
  /\ sampleRate = 100
  /\ deviceId = "none"
  /\ readings = NoReadings
  /\ vadMetrics = NoVAD
  /\ metricConfig = AbsentItem
  /\ audioMetricSettings = AbsentSettings
  /\ result = NoAnalysis
  /\ scores = NoScores
  /\ overall = [done |-> FALSE, value |-> 0]
  /\ NoCallYet
  /\ scanEnergies \in EnergySeqs(MaxFrames)
  /\ scanSpeech \in SpeechRuns(Len(scanEnergies))
  /\ pulses = NoPulses
  /\ NoMetricsTab
  /\ NoPage

\* detectSyllablesFromPeaks: threshold from all the frames, every frame scanned
ScanPeaks ==
  /\ ~pulses.scanned
  /\ pulses' = Pulses(scanEnergies, 1..Len(scanEnergies))
  /\ UNCHANGED << engineVars, scanEnergies, scanSpeech, metrics, pageVars >>

\* detectSyllablesWithVAD: threshold from the frames inside speech, only
\* those scanned; with no frame inside speech, detectSyllablesFromPeaks
ScanSpeechPeaks ==
  /\ ~pulses.scanned
  /\ pulses' = IF scanSpeech = {} THEN Pulses(scanEnergies, 1..Len(scanEnergies))
                                  ELSE Pulses(scanEnergies, scanSpeech)
  /\ UNCHANGED << engineVars, scanEnergies, scanSpeech, metrics, pageVars >>

NextPulse ==
  \/ ScanPeaks
  \/ ScanSpeechPeaks

SpecPulse == InitPulse /\ [][NextPulse]_vars

----------------------------------------------------------------------------
(* Properties of the pulse scans (specification SpecPulse) *)

\* frame k is above 0.15 times the maximum considered and strictly above
\* both of its neighbours
IsCountablePulse(energies, maxEnergy, k) ==
  /\ k > 1
  /\ k < Len(energies)
  /\ 100 * energies[k] > 15 * maxEnergy
  /\ energies[k] > energies[k - 1]
  /\ energies[k] > energies[k + 1]

\* C21: in both pulse scans, every counted pulse is a frame whose energy is
\* above 0.15 times the maximum energy considered and strictly above both
\* neighbouring frames, any two counted pulses are at least 4 frames apart,
\* and the count is at most the number of frames divided by 4, rounded up.
C21_PulsesAreSeparatedPeaks ==
  pulses.scanned =>
    /\ \A i \in 1..Len(pulses.peaks) :
         IsCountablePulse(scanEnergies, pulses.maxEnergy, pulses.peaks[i])
    /\ \A i, j \in 1..Len(pulses.peaks) :
         i < j => pulses.peaks[j] - pulses.peaks[i] >= 4
    /\ 4 * Len(pulses.peaks) <= Len(scanEnergies) + 3

\* a scan restricted to speech frames counted two pulses exactly 4 frames
\* apart and passed over a peak between them
C21_Witness ==
  /\ pulses.scanned
  /\ scanSpeech # {}
  /\ scanSpeech # 1..Len(scanEnergies)
  /\ Len(pulses.peaks) = 2
  /\ pulses.peaks[2] - pulses.peaks[1] = 4
  /\ \E k \in scanSpeech :
       /\ k > pulses.peaks[1]
       /\ k < pulses.peaks[2]
       /\ IsCountablePulse(scanEnergies, pulses.maxEnergy, k)

----------------------------------------------------------------------------
(* Specification of the score calculations of analyzeSpeechRate,            *)
(* analyzeResponseTime and analyzePauses alone: two readings of one metric, *)
(* each scored under its own thresholds                                     *)

\* two readings of a metric and the thresholds each is scored under
ScoredPair(metric, v1, v2, t1, t2) ==
  [scored |-> FALSE, metric |-> metric, v1 |-> v1, v2 |-> v2, t1 |-> t1, t2 |-> t2,
   score1 |-> 0, score2 |-> 0]

\* wpm readings: every fifth value up to 300 and the values next to the
\* thresholds
RateReadings ==
  {5 * k : k \in 0..60} \cup {1, 89, 91, 149, 151, 219, 221, 269, 271}

\* speechRate thresholds: the defaults, those of CustomConfig, and the
\* defaults with the Min field of the MetricsTab emptied (parseFloat('') || 0)
RateThresholds ==
  { Thresholds(90, 150, 220), Thresholds(100, 160, 240), Thresholds(0, 150, 220) }

\* response times in ms: every 100 ms up to 6 s and the values next to the
\* thresholds
LatencyReadings ==
  {100 * k : k \in 0..60} \cup {199, 201, 218, 1999, 2001, 4999, 5001}

\* responseTime thresholds: the defaults, the defaults with another max, and
\* a faster pair
LatencyThresholds ==
  { Thresholds(2000, 200, 0), Thresholds(2000, 200, 5000), Thresholds(1000, 100, 0) }

\* pause ratios in hundredths, from below 0 (a speechRatio above 1) to 1.2
PauseReadings == -5..120

\* pauseManagement thresholds, max in hundredths: the default 2.71, 0.5 and 1
PauseThresholds ==
  { Thresholds(0, 0, 271), Thresholds(0, 0, 50), Thresholds(0, 0, 100) }

InitScore ==
  /\ audioBuffer = << >>
  /\ sampleRate = 100
  /\ deviceId = "none"
  /\ \/ \E v \in RateReadings, t \in RateThresholds :
          readings = ScoredPair("speechRate", v, v, t, t)
     \/ \E v1 \in LatencyReadings, v2 \in LatencyReadings,
           t1 \in LatencyThresholds, t2 \in LatencyThresholds :
          readings = ScoredPair("responseTime", v1, v2, t1, t2)
     \/ \E v1 \in PauseReadings, v2 \in PauseReadings, t \in PauseThresholds :
          readings = ScoredPair("pauseManagement", v1, v2, t, t)
  /\ vadMetrics = NoVAD
  /\ metricConfig = AbsentItem
  /\ audioMetricSettings = AbsentSettings
  /\ result = NoAnalysis
  /\ scores = NoScores
  /\ overall = [done |-> FALSE, value |-> 0]
  /\ NoCallYet
  /\ NoPulseScan
  /\ NoMetricsTab
  /\ NoPage

\* readings with both scores filled in
WithScores(score1, score2) ==
  [readings EXCEPT !.scored = TRUE, !.score1 = score1, !.score2 = score2]

\* the score calculation of analyzeSpeechRate
ScoreSpeechRate ==
  /\ ~readings.scored
  /\ readings.metric = "speechRate"
  /\ readings' = WithScores(SpeechRateScore(readings.v1, readings.t1),
                            SpeechRateScore(readings.v2, readings.t2))
  /\ UNCHANGED << scanVars, metrics, pageVars, audioBuffer, sampleRate, deviceId,
                  vadMetrics, metricConfig, audioMetricSettings, result, scores,
                  overall, pc, partial, storeVersion, observed, snapshot, memo >>

\* the score calculation of analyzeResponseTime
ScoreResponseTime ==
  /\ ~readings.scored
  /\ readings.metric = "responseTime"
  /\ readings' = WithScores(ResponseTimeScore(readings.v1, readings.t1),
                            ResponseTimeScore(readings.v2, readings.t2))
  /\ UNCHANGED << scanVars, metrics, pageVars, audioBuffer, sampleRate, deviceId,
                  vadMetrics, metricConfig, audioMetricSettings, result, scores,
                  overall, pc, partial, storeVersion, observed, snapshot, memo >>

\* the score calculation of analyzePauses
ScorePauses ==
  /\ ~readings.scored
  /\ readings.metric = "pauseManagement"
  /\ readings' = WithScores(PauseScore([num |-> readings.v1, den |-> 100], readings.t1.max),
                            PauseScore([num |-> readings.v2, den |-> 100], readings.t2.max))
  /\ UNCHANGED << scanVars, metrics, pageVars, audioBuffer, sampleRate, deviceId,
                  vadMetrics, metricConfig, audioMetricSettings, result, scores,
                  overall, pc, partial, storeVersion, observed, snapshot, memo >>

NextScore ==
  \/ ScoreSpeechRate
  \/ ScoreResponseTime
  \/ ScorePauses

SpecScore == InitScore /\ [][NextScore]_vars

----------------------------------------------------------------------------
(* Properties of the score calculations (specification SpecScore) *)

\* s is num / den (den > 0) rounded to the nearest integer, halves up, and
\* clamped to [0, 100]
IsRoundedAndClamped(s, num, den) ==
  /\ s \in 0..100
  /\ \/ s = 0 /\ 2 * num < den
     \/ s = 100 /\ 2 * num >= 199 * den
     \/ 2 * den * s - den <= 2 * num /\ 2 * num < 2 * den * s + den

\* the reading is a speech rate scored under thresholds min < ideal < max
RateScored ==
  /\ readings.scored
  /\ readings.metric = "speechRate"
  /\ readings.v1 >= 0
  /\ readings.t1.min < readings.t1.ideal
  /\ readings.t1.ideal < readings.t1.max

\* the piecewise function of the speech-rate score: the four branches, then
\* the scores at wpm = min and wpm = max
RatePiecewise(wpm, t, score) ==
  /\ (wpm >= t.min /\ wpm <= t.ideal) =>
       IsRoundedAndClamped(score, 70 * (t.ideal - t.min) + 30 * (wpm - t.min),
                           t.ideal - t.min)
  /\ (wpm > t.ideal /\ wpm <= t.max) =>
       IsRoundedAndClamped(score, 100 * (t.max - t.ideal) - 30 * (wpm - t.ideal),
                           t.max - t.ideal)
  /\ wpm < t.min => IsRoundedAndClamped(score, 70 * wpm, t.min)
  /\ wpm > t.max => IsRoundedAndClamped(score, 70 * (50 - (wpm - t.max)), 50)
  /\ wpm = t.min => score = 70
  /\ wpm = t.max => score = 70

LatencyScored ==
  /\ readings.scored
  /\ readings.metric = "responseTime"
  /\ readings.t1.ideal < readings.t1.min
  /\ readings.t2.ideal < readings.t2.min

\* the piecewise function of the latency score with max_ms = thresholds.min
\* and ideal_ms = thresholds.ideal, and the score at response_ms = max_ms
LatencyPiecewise(ms, t, score) ==
  /\ ms <= t.ideal => score = 100
  /\ (ms > t.ideal /\ ms <= t.min) =>
       IsRoundedAndClamped(score, 100 * (t.min - t.ideal) - 50 * (ms - t.ideal),
                           t.min - t.ideal)
  /\ ms > t.min => IsRoundedAndClamped(score, 50 * (3000 - (ms - t.min)), 3000)
  /\ ms = t.min => score = 50

\* C23: the latency score takes max_ms from thresholds.min and ideal_ms from
\* thresholds.ideal, thresholds.max has no effect, and for ideal_ms < max_ms
\* the score is the piecewise function (100 up to ideal_ms, falling to 50 at
\* max_ms, then max(0, 50*(1-(response_ms-max_ms)/3000))), hence
\* non-increasing in response_ms and 50 at response_ms = max_ms.
C23_LatencyScoreIsPiecewise ==
  LatencyScored =>
    /\ LatencyPiecewise(readings.v1, readings.t1, readings.score1)
    /\ LatencyPiecewise(readings.v2, readings.t2, readings.score2)
    /\ (/\ readings.v1 = readings.v2
        /\ readings.t1.min = readings.t2.min
        /\ readings.t1.ideal = readings.t2.ideal) => readings.score1 = readings.score2
    /\ (readings.t1 = readings.t2 /\ readings.v1 <= readings.v2) =>
         readings.score2 <= readings.score1

\* one response time between ideal_ms and max_ms scored under thresholds
\* that differ in max only, and a slower one scored lower
C23_Witness ==
  /\ LatencyScored
  /\ readings.t1.max # readings.t2.max
  /\ readings.t1.min = readings.t2.min
  /\ readings.t1.ideal = readings.t2.ideal
  /\ readings.v1 > readings.t1.ideal
  /\ readings.v1 < readings.v2
  /\ readings.v2 = readings.t2.min
  /\ readings.score1 < 100
  /\ readings.score2 = 50

\* both readings are pause ratios scored under the same max_ratio > 0
PausesScored ==
  /\ readings.scored
  /\ readings.metric = "pauseManagement"
  /\ readings.t1.max > 0
  /\ readings.t1 = readings.t2

\* the pause score for a ratio of `hundredths` / 100 under max_ratio =
\* `maxRatio` / 100
PausePiecewise(hundredths, maxRatio, score) ==
  /\ hundredths <= 10 => score = 100
  /\ hundredths > 10 =>
       IsRoundedAndClamped(score, 100 * maxRatio - 100 * (hundredths - 10), maxRatio)

\* C24: the pause score is 100 for every pause ratio <= 0.1, above 0.1 it is
\* max(0, 100 - (pause_ratio - 0.1) / max_ratio * 100) rounded and clamped to
\* [0,100], and it is non-increasing in the pause ratio for max_ratio > 0.
C24_PauseScoreIsPiecewise ==
  PausesScored =>
    /\ PausePiecewise(readings.v1, readings.t1.max, readings.score1)
    /\ PausePiecewise(readings.v2, readings.t2.max, readings.score2)
    /\ readings.v1 <= readings.v2 => readings.score2 <= readings.score1

\* a ratio of exactly 0.1 scored 100 and a larger one scored strictly
\* between 0 and 100
C24_Witness ==
  /\ PausesScored
  /\ readings.v1 = 10
  /\ readings.score1 = 100
  /\ readings.v2 > 10
  /\ readings.score2 > 0
  /\ readings.score2 < 100

----------------------------------------------------------------------------
(* Properties of the Pause Analyzer over repeated calls (specification SpecDet) *)

\* the last call and the remembered call both returned, with the same VAD
\* metrics, sample rate and stored configuration
SameVADAsRemembered ==
  /\ memo.set
  /\ Returned
  /\ memo.result.status = "returned"
  /\ vadMetrics.present
  /\ memo.vadMetrics = vadMetrics
  /\ memo.sampleRate = sampleRate
  /\ memo.config = snapshot.config
  /\ memo.settings = snapshot.settings

\* C25: when VAD metrics with a speechRatio are supplied the pause ratio is
\* 1 - speechRatio, never the frame-energy estimate or a blend: two calls
\* with the same VAD metrics and configuration but different sample buffers
\* return the same pause result.
C25_VADRatioDecidesPauses ==
  /\ (Returned /\ vadMetrics.present) =>
       result.pauses.pauseRatio =
         MathRound(100 * (vadMetrics.speechRatio.den - vadMetrics.speechRatio.num),
                   vadMetrics.speechRatio.den)
  /\ SameVADAsRemembered => result.pauses = memo.result.pauses

\* two calls with the same VAD metrics on buffers of which one has two
\* silent 50 ms frames and the other has no complete frame
C25_Witness ==
  /\ SameVADAsRemembered
  /\ memo.audioBuffer # audioBuffer
  /\ Len(memo.audioBuffer) = 5
  /\ Len(audioBuffer) = 13
  /\ result.pauses = memo.result.pauses

----------------------------------------------------------------------------
(* Properties of the Dynamics Analyzer within one call (specification Spec) *)

\* every supplied segment lies inside the recording
SegmentsInsideRecording(vad, buf, sr) ==
  \A k \in 1..Len(vad.speechSegments) :
     /\ vad.speechSegments[k].start >= 0
     /\ vad.speechSegments[k].start <= vad.speechSegments[k].end
     /\ vad.speechSegments[k].end * sr <= Len(buf) * 1000

\* C26: when the Dynamics Analyzer splits the supplied speech segments at
\* the midpoint, the speech time of the first half plus the speech time of
\* the second half equals the total duration of the supplied segments, for
\* every layout inside the recording, a segment spanning the midpoint
\* included; the segments of the second half start at or after 0.
C26_HalvesKeepAllSpeechTime ==
  (/\ Returned
   /\ vadMetrics.present
   /\ sampleRate > 0
   /\ Len(audioBuffer) > 0
   /\ SegmentsInsideRecording(vadMetrics, audioBuffer, sampleRate)) =>
    /\ SumDurations(FirstHalfSegments(vadMetrics, audioBuffer, sampleRate))
         + SumDurations(SecondHalfSegments(vadMetrics, audioBuffer, sampleRate))
       = SumDurations(vadMetrics.speechSegments)
    /\ \A k \in 1..Len(SecondHalfSegments(vadMetrics, audioBuffer, sampleRate)) :
         SecondHalfSegments(vadMetrics, audioBuffer, sampleRate)[k].start >= 0

\* volume_increase * 2 + rate_increase * 0.5 <= 0, on the volumes (tenths of
\* a dB) and rates the result reports for the two halves
TrailsOff(acc) ==
  /\ acc.segment1Volume # NaN
  /\ acc.segment2Volume # NaN
  /\ 2 * (acc.segment2Volume - acc.segment1Volume)
       + 5 * (acc.segment2Rate - acc.segment1Rate) <= 0

\* C28: for every pair of half-buffer volume and rate readings
\* analyzeAcceleration returns an integer score in [50,100], and exactly 50
\* whenever volume_increase * 2 + rate_increase * 0.5 <= 0.
C28_DynamicsScoreAtLeast50 ==
  (Returned /\ sampleRate > 0 /\ Len(audioBuffer) > 0) =>
    /\ result.acceleration.score \in 50..100
    /\ TrailsOff(result.acceleration) => result.acceleration.score = 50

\* C28 for buffers of two samples or more, whose halves are both non-empty
C28_HoldsWhenBothHalvesHaveSamples ==
  Len(audioBuffer) >= 2 => C28_DynamicsScoreAtLeast50

----------------------------------------------------------------------------
(* The admin MetricsTab (src/unnamed/part_007): the list `metrics`, its     *)
(* weights and rebalanceWeights.  A row of the model keeps metric_id,       *)
(* enabled and weight; thresholds and method pass through every handler     *)
(* here unchanged.  Weights are JavaScript numbers: integers, NaN, or the   *)
(* infinities below.                                                        *)

Infinity == 888888

Finite(x) == x # NaN /\ x # Infinity /\ x # -Infinity

\* a + b on JavaScript numbers
Plus(a, b) ==
  IF a = NaN \/ b = NaN THEN NaN
  ELSE IF ~Finite(a) THEN (IF b = -a THEN NaN ELSE a)
  ELSE IF ~Finite(b) THEN b
  ELSE a + b

\* -a on JavaScript numbers
Negated(a) == IF a = NaN THEN NaN ELSE -a

\* Math.round((weight / totalWeight) * 100)
RoundedShare(weight, totalWeight) ==
  IF weight = NaN \/ totalWeight = NaN THEN NaN
  ELSE IF ~Finite(totalWeight) THEN (IF Finite(weight) THEN 0 ELSE NaN)
  ELSE IF ~Finite(weight) THEN (IF totalWeight = 0 THEN weight
                                ELSE IF totalWeight > 0 THEN weight ELSE -weight)
  ELSE IF totalWeight = 0
    THEN (IF weight = 0 THEN NaN ELSE IF weight > 0 THEN Infinity ELSE -Infinity)
  ELSE MathRound(100 * weight, totalWeight)

MetricRow(metric_id, enabled, weight) ==
  [metric_id |-> metric_id, enabled |-> enabled, weight |-> weight]

\* the rows of this model and their weights in DEFAULT_METRICS
TabMetricIds == << "volume", "speechRate", "acceleration" >>

DefaultWeight(metric_id) ==
  CASE metric_id = "volume" -> 30
    [] metric_id = "speechRate" -> 30
    [] metric_id = "acceleration" -> 5
    [] OTHER -> 20

RECURSIVE EnabledTotal(_)
\* metrics.filter(m => m.enabled).reduce((sum, m) => sum + m.weight, 0)
EnabledTotal(ms) ==
  IF ms = << >> THEN 0
  ELSE IF Head(ms).enabled THEN Plus(Head(ms).weight, EnabledTotal(Tail(ms)))
  ELSE EnabledTotal(Tail(ms))

AnyEnabled(ms) == \E k \in 1..Len(ms) : ms[k].enabled

\* rebalanced.find(m => m.enabled), as an index
FirstEnabled(ms) ==
  CHOOSE k \in 1..Len(ms) : ms[k].enabled /\ \A j \in 1..(k - 1) : ~ms[j].enabled

\* currentMetrics.map: a disabled metric gets weight 0, an enabled one
\* Math.round((m.weight / totalWeight) * 100)
Rescaled(ms, totalWeight) ==
  [k \in 1..Len(ms) |->
     IF ms[k].enabled
       THEN [ms[k] EXCEPT !.weight = RoundedShare(ms[k].weight, totalWeight)]
       ELSE [ms[k] EXCEPT !.weight = 0]]

\* firstEnabled.weight += 100 - newTotal, when newTotal !== 100
RoundingFixed(rebalanced, newTotal) ==
  IF newTotal = 100 THEN rebalanced
  ELSE [rebalanced EXCEPT ![FirstEnabled(rebalanced)].weight =
          Plus(@, Plus(100, Negated(newTotal)))]

rebalanceWeights(currentMetrics) ==
  IF ~AnyEnabled(currentMetrics) THEN currentMetrics
  ELSE IF EnabledTotal(currentMetrics) = 100 THEN currentMetrics
  ELSE RoundingFixed(Rescaled(currentMetrics, EnabledTotal(currentMetrics)),
                     EnabledTotal(Rescaled(currentMetrics, EnabledTotal(currentMetrics))))

\* the entries handleSave writes to 'metricConfig': weight is
\* m.enabled ? m.weight : 0
LocalConfig(rebalanced) ==
  [kind |-> "list",
   entries |-> [k \in 1..Len(rebalanced) |->
                  [id |-> rebalanced[k].metric_id,
                   weight |-> IF rebalanced[k].enabled THEN rebalanced[k].weight ELSE 0,
                   enabled |-> rebalanced[k].enabled]]]

----------------------------------------------------------------------------
(* Specification of the MetricsTab: the admin toggles metrics, moves weight *)
(* sliders, rebalances and saves                                            *)

\* positions of the weight slider (min 0, max 100, step 5) the admin uses
SliderValues == {0, 15, 25}

\* the list fetchMetrics loads: enabled is weight > 0
InitTab ==
  /\ audioBuffer = << >>
  /\ sampleRate = 100
  /\ deviceId = "none"
  /\ readings = NoReadings
  /\ vadMetrics = NoVAD
  /\ metricConfig = AbsentItem
  /\ audioMetricSettings = AbsentSettings
  /\ result = NoAnalysis
  /\ scores = NoScores
  /\ overall = [done |-> FALSE, value |-> 0]
  /\ NoCallYet
  /\ NoPulseScan
  /\ \E w \in [1..Len(TabMetricIds) -> SliderValues \cup {30, 40}] :
       metrics = [k \in 1..Len(TabMetricIds) |->
                    MetricRow(TabMetricIds[k], w[k] > 0, w[k])]
  /\ NoPage

\* the model follows the tab up to its first save (fetchMetrics then reloads
\* the list from the table) and while every weight is one the slider can
\* show: an integer from 0 to 100
OnSlider(ms) == \A k \in 1..Len(ms) : ms[k].weight \in 0..100

TabOpen == storeVersion = 0 /\ OnSlider(metrics)

\* the switch of a metric: disabling sets its weight to 0, enabling restores
\* the default weight; then rebalanceWeights
handleToggle(metricId) ==
  /\ TabOpen
  /\ metrics' = rebalanceWeights(
       [k \in 1..Len(metrics) |->
          IF metrics[k].metric_id = metricId
            THEN MetricRow(metricId, ~metrics[k].enabled,
                           IF ~metrics[k].enabled THEN DefaultWeight(metricId) ELSE 0)
            ELSE metrics[k]])
  /\ UNCHANGED << engineVars, scanVars, pageVars >>

\* the weight slider of an enabled metric (the slider of a disabled one is
\* disabled)
handleWeightChange(metricId, value) ==
  /\ TabOpen
  /\ \E k \in 1..Len(metrics) : metrics[k].metric_id = metricId /\ metrics[k].enabled
  /\ metrics' = [k \in 1..Len(metrics) |->
                   IF metrics[k].metric_id = metricId
                     THEN [metrics[k] EXCEPT !.weight = value] ELSE metrics[k]]
  /\ UNCHANGED << engineVars, scanVars, pageVars >>

\* the Rebalance button, disabled while the enabled weights total 100
handleRebalance ==
  /\ TabOpen
  /\ EnabledTotal(metrics) # 100
  /\ metrics' = rebalanceWeights(metrics)
  /\ UNCHANGED << engineVars, scanVars, pageVars >>

\* Save Changes: rebalanceWeights(metrics) goes to the table and to
\* localStorage 'metricConfig'; fetchMetrics then reloads the list
handleSave ==
  /\ TabOpen
  /\ metricConfig' = LocalConfig(rebalanceWeights(metrics))
  /\ storeVersion' = storeVersion + 1
  /\ UNCHANGED << scanVars, metrics, pageVars, audioBuffer, sampleRate, readings,
                  deviceId, vadMetrics, audioMetricSettings, result, scores, overall,
                  pc, partial, observed, snapshot, memo >>

NextTab ==
  \/ \E k \in 1..Len(TabMetricIds) : handleToggle(TabMetricIds[k])
  \/ \E k \in 1..Len(TabMetricIds), value \in SliderValues :
       handleWeightChange(TabMetricIds[k], value)
  \/ handleRebalance
  \/ handleSave

SpecTab == InitTab /\ [][NextTab]_vars

----------------------------------------------------------------------------
(* Properties of rebalanceWeights (specification SpecTab) *)

\* a step of a handler that sets `metrics` to what rebalanceWeights returns
RebalancingStep ==
  \/ handleRebalance
  \/ \E k \in 1..Len(TabMetricIds) : handleToggle(TabMetricIds[k])

\* a weight that is a non-negative integer
IsWeight(w) == Finite(w) /\ w \in Nat

\* C27: for every metric list with at least one enabled metric,
\* rebalanceWeights returns a list in which the weights of the enabled
\* metrics sum to exactly 100; so do the weights handleSave stores.
C27_EnabledWeightsSumTo100 ==
  [][ /\ (RebalancingStep /\ AnyEnabled(metrics')) => EnabledTotal(metrics') = 100
      /\ (handleSave /\ AnyEnabled(metrics)) =>
           EnabledTotal(metricConfig'.entries) = 100 ]_vars

\* C30: for every metric list whose weights are non-negative integers, every
\* weight in the list rebalanceWeights returns is a non-negative integer.
C30_RebalancedWeightsAreNaturals ==
  [][ (RebalancingStep /\ OnSlider(metrics)) =>
        \A k \in 1..Len(metrics') : IsWeight(metrics'[k].weight) ]_vars

\* C30 without NaN: no weight rebalanceWeights returns is a negative number
C30_NoWeightBelowZero ==
  [][ RebalancingStep =>
        \A k \in 1..Len(metrics') :
           metrics'[k].weight = NaN \/ metrics'[k].weight >= 0 ]_vars

----------------------------------------------------------------------------
(* The Index page (src/src/pages/Index.tsx): appState, results, the        *)
(* processAudio effect and its delayed callbacks.  useAudioRecorder is not *)
(* part of src/: the recorder is taken as the page sees it, a hook whose   *)
(* audioBuffer, audioBase64 and sampleRate change after stopRecording, each *)
(* in a render of its own and in any order.                                *)

\* most analyzeAudioAsync calls and timeouts pending at once
MaxPending == 3

\* the values of the hook that are dependencies of the processAudio effect
RecorderOutputs == {"audioBuffer", "audioBase64", "sampleRate"}

\* the processAudio effect, run after a render that changed one of its
\* dependencies: it calls analyzeAudioAsync when audioBuffer is set and
\* appState is 'processing'; the count of calls awaited after it
CallsAfterEffect(buffer, state) ==
  IF buffer # "null" /\ state = "processing" THEN calls + 1 ELSE calls

\* RecordButton is rendered unless appState is 'results'; a click while
\* processing does nothing, else it stops or starts by isRecording
handleStartRecording ==
  /\ appState \notin {"results", "processing"}
  /\ ~recorder.isRecording
  /\ results' = "null"
  /\ recorder' = [recorder EXCEPT !.isRecording = TRUE]
  /\ appState' = "recording"
  /\ UNCHANGED << engineVars, scanVars, metrics, calls, timeouts >>

handleStopRecording ==
  /\ appState \notin {"results", "processing"}
  /\ recorder.isRecording
  /\ CallsAfterEffect(recorder.audioBuffer, "processing") + timeouts <= MaxPending
  /\ appState' = "processing"
  /\ recorder' = [recorder EXCEPT !.isRecording = FALSE, !.toDeliver = RecorderOutputs]
  /\ calls' = CallsAfterEffect(recorder.audioBuffer, "processing")
  /\ UNCHANGED << engineVars, scanVars, metrics, results, timeouts >>

\* the hook re-renders the page with one more of its outputs changed
RecorderDelivers(output) ==
  /\ output \in recorder.toDeliver
  /\ CallsAfterEffect("buffer", appState) + timeouts <= MaxPending
  /\ recorder' = [recorder EXCEPT
                    !.toDeliver = @ \ {output},
                    !.audioBuffer = IF output = "audioBuffer" THEN "buffer" ELSE @]
  /\ calls' = CallsAfterEffect(recorder'.audioBuffer, appState)
  /\ UNCHANGED << engineVars, scanVars, metrics, appState, results, timeouts >>

\* await analyzeAudioAsync(...) resumes: setTimeout(..., 500)
AnalysisReturns ==
  /\ calls > 0
  /\ calls' = calls - 1
  /\ timeouts' = timeouts + 1
  /\ UNCHANGED << engineVars, scanVars, metrics, appState, results, recorder >>

\* the delayed callback: setResults(analysisResults); setAppState('results')
TimeoutFires ==
  /\ timeouts > 0
  /\ timeouts' = timeouts - 1
  /\ results' = "analysisResults"
  /\ appState' = "results"
  /\ UNCHANGED << engineVars, scanVars, metrics, recorder, calls >>

\* the Try Again button of ResultsView, rendered when appState is 'results'
\* and results is set: resetRecording(), setResults(null), setAppState('idle')
handleRetry ==
  /\ appState = "results"
  /\ results # "null"
  /\ recorder' = [recorder EXCEPT !.isRecording = FALSE, !.audioBuffer = "null"]
  /\ results' = "null"
  /\ appState' = "idle"
  /\ UNCHANGED << engineVars, scanVars, metrics, calls, timeouts >>

InitPage ==
  /\ audioBuffer = << >>
  /\ sampleRate = 100
  /\ deviceId = "none"
  /\ readings = NoReadings
  /\ vadMetrics = NoVAD
  /\ metricConfig = AbsentItem
  /\ audioMetricSettings = AbsentSettings
  /\ result = NoAnalysis
  /\ scores = NoScores
  /\ overall = [done |-> FALSE, value |-> 0]
  /\ NoCallYet
  /\ NoPulseScan
  /\ NoMetricsTab
  /\ NoPage

NextPage ==
  \/ handleStartRecording
  \/ handleStopRecording
  \/ \E output \in RecorderOutputs : RecorderDelivers(output)
  \/ AnalysisReturns
  \/ TimeoutFires
  \/ handleRetry

SpecPage == InitPage /\ [][NextPage]_vars

----------------------------------------------------------------------------
(* Properties of the Index page (specification SpecPage) *)

\* C29: the page enters 'results' and sets a result only while it is in
\* 'processing': once Retry has returned it to 'idle', no pending callback
\* moves it to 'results' or sets a result until a new recording has been
\* stopped.
C29_ResultsOnlyFromProcessing ==
  [][ (appState # "processing") =>
        /\ appState' = "results" => appState = "results"
        /\ results' = "analysisResults" => results = "analysisResults" ]_vars

====
